---- MODULE Spec2Model ----
(***************************************************************************)
(* Model of the insights pipeline of chat-with-data:                       *)
(*   - the response validators and remote calls of lib/insights-api        *)
(*     (validatePlanResponse, validateInsightsResponse,                    *)
(*      requestAnalysisPlan, synthesizeInsights),                          *)
(*   - the orchestrator runInsights of lib/use-insights.ts, one action per *)
(*     resumption of the async function (call, plan settles, a query       *)
(*     settles, synthesis settles), for every call that is pending.        *)
(* JSON values coming from the model endpoint are untyped: they are        *)
(* modelled as tagged records so that the typeof / Array.isArray guards of *)
(* the validators are computed, not assumed.                               *)
(***************************************************************************)
EXTENDS Integers, Sequences, FiniteSets, TLC

\* ------------------------------------------------------------------------
\* Bounds of the model
\* ------------------------------------------------------------------------
MaxPlan == 3
MaxRows == 1
MaxInsights == 2
MaxSent == 2
MaxOver == 2
MaxRuns == 2

\* ------------------------------------------------------------------------
\* JavaScript values (decoded JSON) and the language operations used on them
\* ------------------------------------------------------------------------
Undefined == [k |-> "undefined"]
Null == [k |-> "null"]
Str(s) == [k |-> "string", s |-> s]
Num(n) == [k |-> "number", n |-> n]
Bool(b) == [k |-> "boolean", b |-> b]
Arr(a) == [k |-> "array", a |-> a]
Obj(f) == [k |-> "object", f |-> f]

\* typeof v
TypeOf(v) == IF v.k \in {"null", "array", "object"} THEN "object" ELSE v.k

\* typeof v === "object" && v !== null
IsObjectLike(v) == TypeOf(v) = "object" /\ v # Null

\* Array.isArray(v)
IsArray(v) == v.k = "array"

\* v.name for an object-like v (own properties of decoded JSON only)
Get(v, name) ==
  IF v.k = "object" /\ name \in DOMAIN v.f THEN v.f[name] ELSE Undefined

\* ToBoolean(v)
Truthy(v) ==
  CASE v.k = "undefined" -> FALSE
    [] v.k = "null" -> FALSE
    [] v.k = "string" -> v.s # ""
    [] v.k = "number" -> v.n # 0
    [] v.k = "boolean" -> v.b
    [] OTHER -> TRUE

Digit(d) ==
  CASE d = 0 -> "0" [] d = 1 -> "1" [] d = 2 -> "2" [] d = 3 -> "3"
    [] d = 4 -> "4" [] d = 5 -> "5" [] d = 6 -> "6" [] d = 7 -> "7"
    [] d = 8 -> "8" [] OTHER -> "9"

RECURSIVE DecNat(_)
DecNat(n) == IF n < 10 THEN Digit(n) ELSE DecNat(n \div 10) \o Digit(n % 10)

\* String(n) for an integer n
DecStr(n) == IF n < 0 THEN "-" \o DecNat(0 - n) ELSE DecNat(n)

\* String(v), as used by `new Error(v)` and template literals.  An array
\* is Array.prototype.join(","): its elements' strings separated by commas,
\* a null or undefined element giving the empty string
RECURSIVE ToStr(_)
ToStr(v) ==
  CASE v.k = "string" -> v.s
    [] v.k = "number" -> DecStr(v.n)
    [] v.k = "boolean" -> (IF v.b THEN "true" ELSE "false")
    [] v.k = "null" -> "null"
    [] v.k = "undefined" -> "undefined"
    [] v.k = "array" ->
         LET Elem(j) == IF v.a[j].k \in {"null", "undefined"} THEN ""
                        ELSE ToStr(v.a[j])
             Join[j \in 0..Len(v.a)] ==
               IF j = 0 THEN ""
               ELSE IF j = 1 THEN Elem(1)
               ELSE Join[j - 1] \o "," \o Elem(j) IN
         Join[Len(v.a)]
    [] OTHER -> "[object Object]"

\* Results of a call that either returns a value or throws / rejects
Ok(v) == [st |-> "ok", value |-> v]
Err(m) == [st |-> "err", message |-> m]

\* ------------------------------------------------------------------------
\* lib/insights-api: validatePlanResponse
\* ------------------------------------------------------------------------
\* PlanItemId numbering the synthetic ids from 0
PlanItemId_ZeroBased(q, idx) ==
  LET id == Get(q, "id") IN
  IF TypeOf(id) = "string" /\ Truthy(id) THEN id.s
  ELSE IF TypeOf(id) = "number" THEN DecStr(id.n)
  ELSE "q" \o DecStr(idx)

\* the id given to the accepted element q at 0-based position idx
PlanItemId(q, idx) ==
  LET id == Get(q, "id") IN
  IF TypeOf(id) = "string" /\ Truthy(id) THEN id.s
  ELSE IF TypeOf(id) = "number" THEN DecStr(id.n)
  ELSE "q" \o DecStr(idx + 1)

\* the guard of the loop body: an object with string title and string sql
PlanItemAccepted(q) ==
  /\ IsObjectLike(q)
  /\ TypeOf(Get(q, "title")) = "string"
  /\ TypeOf(Get(q, "sql")) = "string"

\* (item.rationale as string) || ""  -- the cast does not convert
PlanItemRationale(q) ==
  IF Truthy(Get(q, "rationale")) THEN Get(q, "rationale") ELSE Str("")

PlanItem(q, idx) ==
  [id |-> PlanItemId(q, idx),
   title |-> Get(q, "title").s,
   sql |-> Get(q, "sql").s,
   rationale |-> PlanItemRationale(q)]

\* ValidateQueries ending the loop at the first element it does not accept
RECURSIVE ValidateQueries_StopsAtMalformed(_, _)
ValidateQueries_StopsAtMalformed(queries, idx) ==
  IF idx >= Len(queries) THEN <<>>
  ELSE LET q == queries[idx + 1] IN
       IF PlanItemAccepted(q)
       THEN <<PlanItem(q, idx)>>
              \o ValidateQueries_StopsAtMalformed(queries, idx + 1)
       ELSE <<>>

\* the for loop over queries, from 0-based position idx on
RECURSIVE ValidateQueries(_, _)
ValidateQueries(queries, idx) ==
  IF idx >= Len(queries) THEN <<>>
  ELSE LET q == queries[idx + 1] IN
       (IF PlanItemAccepted(q) THEN <<PlanItem(q, idx)>> ELSE <<>>)
         \o ValidateQueries(queries, idx + 1)

validatePlanResponse(data) ==
  IF ~IsObjectLike(data)
  THEN Err("Invalid plan response: expected an object")
  ELSE IF ~IsArray(Get(data, "queries"))
  THEN Err("Invalid plan response: missing or invalid 'queries' array")
  ELSE Ok([queries |-> ValidateQueries(Get(data, "queries").a, 0)])

\* ------------------------------------------------------------------------
\* lib/insights-api: validateInsightsResponse
\* ------------------------------------------------------------------------
VALID_CHART_TYPES == {"bar", "line", "pie", "area", "scatter"}
VALID_PRIORITIES == {"high", "medium", "low"}

\* Set.prototype.has(v) for a set of strings
SetHas(set, v) == v.k = "string" /\ v.s \in set

\* a field that is copied only when it is a string
OptString(src, name) ==
  IF TypeOf(Get(src, name)) = "string"
  THEN [n \in {name} |-> Get(src, name).s]
  ELSE <<>>

\* the loop over yKeysRaw keeping the entries with a string key
RECURSIVE ValidYKeys(_)
ValidYKeys(raw) ==
  IF raw = <<>> THEN <<>>
  ELSE LET yk == Head(raw) IN
       (IF IsObjectLike(yk) /\ TypeOf(Get(yk, "key")) = "string"
        THEN <<[key |-> Get(yk, "key").s]
                 @@ OptString(yk, "label") @@ OptString(yk, "color")>>
        ELSE <<>>)
         \o ValidYKeys(Tail(raw))

\* yKeysRaw, with the legacy single yKey format
YKeysRaw(chart) ==
  LET yKeys == Get(chart, "yKeys") IN
  IF ~IsArray(yKeys) \/ Len(yKeys.a) = 0
  THEN (IF TypeOf(Get(chart, "yKey")) = "string"
        THEN <<Obj([key |-> Get(chart, "yKey")])>>
        ELSE <<>>)
  ELSE yKeys.a

\* InsightChart without the test that some yKeys entry is valid
InsightChart_NoYKeysCheck(i) ==
  LET chart == Get(i, "chart") IN
  IF /\ IsObjectLike(chart)
     /\ SetHas(VALID_CHART_TYPES, Get(chart, "type"))
     /\ TypeOf(Get(chart, "xKey")) = "string"
  THEN [chart |->
          [type |-> Get(chart, "type").s,
           title |-> IF TypeOf(Get(chart, "title")) = "string"
                     THEN Get(chart, "title").s ELSE Get(i, "title").s,
           xKey |-> Get(chart, "xKey").s,
           yKeys |-> ValidYKeys(YKeysRaw(chart)),
           stacked |-> IF TypeOf(Get(chart, "stacked")) = "boolean"
                       THEN Get(chart, "stacked").b ELSE FALSE]]
  ELSE <<>>

\* the chart part of an insight entry: the record [chart |-> ...] or nothing
InsightChart(i) ==
  LET chart == Get(i, "chart") IN
  IF /\ IsObjectLike(chart)
     /\ SetHas(VALID_CHART_TYPES, Get(chart, "type"))
     /\ TypeOf(Get(chart, "xKey")) = "string"
     /\ Len(ValidYKeys(YKeysRaw(chart))) > 0
  THEN [chart |->
          [type |-> Get(chart, "type").s,
           title |-> IF TypeOf(Get(chart, "title")) = "string"
                     THEN Get(chart, "title").s ELSE Get(i, "title").s,
           xKey |-> Get(chart, "xKey").s,
           yKeys |-> ValidYKeys(YKeysRaw(chart)),
           stacked |-> IF TypeOf(Get(chart, "stacked")) = "boolean"
                       THEN Get(chart, "stacked").b ELSE FALSE]]
  ELSE <<>>

InsightAccepted(i) ==
  /\ IsObjectLike(i)
  /\ TypeOf(Get(i, "title")) = "string"
  /\ TypeOf(Get(i, "finding")) = "string"

\* InsightEntry keeping every string priority
InsightEntry_AnyStringPriority(i) ==
  [title |-> Get(i, "title").s,
   priority |-> IF TypeOf(Get(i, "priority")) = "string"
                THEN Get(i, "priority").s ELSE "medium",
   finding |-> Get(i, "finding").s,
   sql |-> IF TypeOf(Get(i, "sql")) = "string" THEN Get(i, "sql").s ELSE ""]
  @@ InsightChart(i)

InsightEntry(i) ==
  [title |-> Get(i, "title").s,
   priority |-> IF SetHas(VALID_PRIORITIES, Get(i, "priority"))
                THEN Get(i, "priority").s ELSE "medium",
   finding |-> Get(i, "finding").s,
   sql |-> IF TypeOf(Get(i, "sql")) = "string" THEN Get(i, "sql").s ELSE ""]
  @@ InsightChart(i)

RECURSIVE ValidateInsights(_)
ValidateInsights(raw) ==
  IF raw = <<>> THEN <<>>
  ELSE (IF InsightAccepted(Head(raw)) THEN <<InsightEntry(Head(raw))>> ELSE <<>>)
         \o ValidateInsights(Tail(raw))

\* validateInsightsResponse failing when the summary is not a string
validateInsightsResponse_RequiresSummary(data) ==
  IF ~IsObjectLike(data)
  THEN Err("Invalid insights response: expected an object")
  ELSE IF TypeOf(Get(data, "summary")) # "string"
  THEN Err("Invalid insights response: missing summary")
  ELSE Ok([summary |-> Get(data, "summary").s,
           insights |-> ValidateInsights(
                          IF IsArray(Get(data, "insights"))
                          THEN Get(data, "insights").a ELSE <<>>)])

validateInsightsResponse(data) ==
  IF ~IsObjectLike(data)
  THEN Err("Invalid insights response: expected an object")
  ELSE Ok([summary |-> IF TypeOf(Get(data, "summary")) = "string"
                       THEN Get(data, "summary").s ELSE "Analysis complete.",
           insights |-> ValidateInsights(
                          IF IsArray(Get(data, "insights"))
                          THEN Get(data, "insights").a ELSE <<>>)])

\* ------------------------------------------------------------------------
\* lib/api.ts: validateLLMResponse.  The function writes to its argument, so
\* it is modelled by two operators: the value it returns or the error it
\* throws, and the argument as the call leaves it
\* ------------------------------------------------------------------------
\* obj.sql === undefined || obj.sql === null
SqlMissing(data) == Get(data, "sql") \in {Undefined, Null}

\* obj.sql after lines 11-13
LLMSql(data) == IF SqlMissing(data) THEN Str("") ELSE Get(data, "sql")

\* obj[name] = v: an own property of the object; on an array, a property
\* beside its elements
SetProp(data, name, v) ==
  IF data.k = "object" THEN Obj([n \in {name} |-> v] @@ data.f)
  ELSE [k |-> "array", a |-> data.a, props |-> [n \in {name} |-> v]]

\* the argument after the call
LLMInputAfter(data) ==
  IF IsObjectLike(data) /\ SqlMissing(data)
  THEN SetProp(data, "sql", Str(""))
  ELSE data

validateLLMResponse(data) ==
  IF ~IsObjectLike(data) THEN Err("Invalid response: expected an object")
  ELSE IF TypeOf(LLMSql(data)) # "string"
  THEN Err("Invalid response: invalid 'sql' field")
  ELSE IF TypeOf(Get(data, "explanation")) # "string"
  THEN Err("Invalid response: missing or invalid 'explanation' field")
  ELSE Ok(Obj([sql |-> LLMSql(data),
               explanation |-> Get(data, "explanation")]))

\* ------------------------------------------------------------------------
\* lib/api.ts: validateChartSpec.  The result is the returned JavaScript
\* value: null or the ChartSpec object
\* ------------------------------------------------------------------------
\* a field that is set on the entry only when it is a string
OptField(src, name) ==
  IF TypeOf(Get(src, name)) = "string"
  THEN [n \in {name} |-> Get(src, name)]
  ELSE <<>>

\* the loop of lines 58-65 over yKeys
RECURSIVE ChartYKeys(_)
ChartYKeys(raw) ==
  IF raw = <<>> THEN <<>>
  ELSE LET yk == Head(raw) IN
       (IF IsObjectLike(yk) /\ TypeOf(Get(yk, "key")) = "string"
        THEN <<Obj([key |-> Get(yk, "key")]
                     @@ OptField(yk, "label") @@ OptField(yk, "color"))>>
        ELSE <<>>)
         \o ChartYKeys(Tail(raw))

\* validateChartSpec copying `stacked` as it is
validateChartSpec_KeepsStacked(data) ==
  IF ~IsObjectLike(data) THEN Null
  ELSE IF ~SetHas(VALID_CHART_TYPES, Get(data, "type")) THEN Null
  ELSE IF TypeOf(Get(data, "xKey")) # "string" THEN Null
  ELSE IF TypeOf(Get(data, "title")) # "string" THEN Null
  ELSE LET yKeys == Get(data, "yKeys") IN
       IF ~IsArray(yKeys) THEN Null
       ELSE IF Len(yKeys.a) = 0 THEN Null
       ELSE IF Len(ChartYKeys(yKeys.a)) = 0 THEN Null
       ELSE Obj([type |-> Get(data, "type"),
                 title |-> Get(data, "title"),
                 xKey |-> Get(data, "xKey"),
                 yKeys |-> Arr(ChartYKeys(yKeys.a)),
                 stacked |-> IF Get(data, "stacked") # Undefined
                             THEN Get(data, "stacked") ELSE Bool(FALSE)])

validateChartSpec(data) ==
  IF ~IsObjectLike(data) THEN Null
  ELSE IF ~SetHas(VALID_CHART_TYPES, Get(data, "type")) THEN Null
  ELSE IF TypeOf(Get(data, "xKey")) # "string" THEN Null
  ELSE IF TypeOf(Get(data, "title")) # "string" THEN Null
  ELSE LET yKeys == Get(data, "yKeys") IN
       IF ~IsArray(yKeys) THEN Null
       ELSE IF Len(yKeys.a) = 0 THEN Null
       ELSE IF Len(ChartYKeys(yKeys.a)) = 0 THEN Null
       ELSE Obj([type |-> Get(data, "type"),
                 title |-> Get(data, "title"),
                 xKey |-> Get(data, "xKey"),
                 yKeys |-> Arr(ChartYKeys(yKeys.a)),
                 stacked |-> IF TypeOf(Get(data, "stacked")) = "boolean"
                             THEN Get(data, "stacked") ELSE Bool(FALSE)])

\* ------------------------------------------------------------------------
\* lib/insights-api: the two remote calls.  What fetch settles with:
\*   NetError(m)            fetch rejects (network error)
\*   Response(ok, st, body) a response; body is Json(v) or NotJson(text)
\* ------------------------------------------------------------------------
RowCap == 20

NetError(m) == [net |-> "error", message |-> m]
Response(ok, status, body) ==
  [net |-> "response", ok |-> ok, status |-> status, body |-> body]
Json(v) == [json |-> TRUE, value |-> v]
NotJson(text) == [json |-> FALSE, text |-> text]

\* the message of the SyntaxError res.json() rejects with, in the wording
\* of V8, for a body that is empty or whose first character begins no JSON
\* value (the error is then at position 0): the first ten characters of a
\* body of 21 characters or more are quoted, and a shorter body whole
JsonSyntaxError(text) ==
  IF text = "" THEN "Unexpected end of JSON input"
  ELSE "Unexpected token '" \o SubSeq(text, 1, 1) \o "', \""
       \o (IF Len(text) >= 21 THEN SubSeq(text, 1, 10) \o "\"..."
           ELSE text \o "\"")
       \o " is not valid JSON"

\* const error = await res.json().catch(() => ({ error: "Request failed" }));
\* throw new Error(error.error || `<generic> (${res.status})`);
FailureMessage(res, generic) ==
  LET error == IF res.body.json THEN res.body.value
               ELSE Obj([error |-> Str("Request failed")]) IN
  IF error = Null
  THEN "Cannot read properties of null (reading 'error')"
  ELSE IF Truthy(Get(error, "error")) THEN ToStr(Get(error, "error"))
  ELSE generic \o " (" \o DecStr(res.status) \o ")"

\* what requestAnalysisPlan settles with when fetch settles with res
requestAnalysisPlan(res) ==
  IF res.net = "error" THEN Err(res.message)
  ELSE IF ~res.ok THEN Err(FailureMessage(res, "Plan request failed"))
  ELSE IF ~res.body.json THEN Err(JsonSyntaxError(res.body.text))
  ELSE validatePlanResponse(res.body.value)

\* Slice keeping one row more than asked
Slice_OneTooMany(rows, n) ==
  SubSeq(rows, 1, IF Len(rows) < n + 1 THEN Len(rows) ELSE n + 1)

\* rows.slice(0, 20)
Slice(rows, n) == SubSeq(rows, 1, IF Len(rows) < n THEN Len(rows) ELSE n)

\* the request payload of synthesizeInsights (result: undefined is not
\* serialized by JSON.stringify)
Capped(list) ==
  [j \in 1..Len(list) |->
     IF "result" \in DOMAIN list[j]
     THEN [list[j] EXCEPT !.result =
             [columns |-> list[j].result.columns,
              rows |-> Slice(list[j].result.rows, RowCap)]]
     ELSE list[j]]

\* what synthesizeInsights settles with when fetch settles with res
synthesizeInsights(res) ==
  IF res.net = "error" THEN Err(res.message)
  ELSE IF ~res.ok THEN Err(FailureMessage(res, "Synthesize request failed"))
  ELSE IF ~res.body.json THEN Err(JsonSyntaxError(res.body.text))
  ELSE validateInsightsResponse(res.body.value)

\* ------------------------------------------------------------------------
\* lib/api.ts: sendChatMessage.  A request is the call of fetch: its body is
\* represented by the value the JSON text encodes
\* ------------------------------------------------------------------------
ChatRequest(schema, history) ==
  [url |-> "/api/chat", method |-> "POST",
   contentType |-> "application/json",
   body |-> [schema |-> schema, messages |-> history]]

\* sendChatMessage returning the decoded body as it is
ChatResult_Unvalidated(res) ==
  IF res.net = "error" THEN Err(res.message)
  ELSE IF ~res.ok
  THEN Err(FailureMessage(res, "Request failed"))
  ELSE IF ~res.body.json THEN Err(JsonSyntaxError(res.body.text))
  ELSE Ok(res.body.value)

\* what sendChatMessage settles with when fetch settles with res
ChatResult(res) ==
  IF res.net = "error" THEN Err(res.message)
  ELSE IF ~res.ok
  THEN Err(FailureMessage(res, "Request failed"))
  ELSE IF ~res.body.json THEN Err(JsonSyntaxError(res.body.text))
  ELSE validateLLMResponse(res.body.value)

\* the requests issued by the call and what it settles with
sendChatMessage(schema, history, res) ==
  [requests |-> <<ChatRequest(schema, history)>>] @@ ChatResult(res)

\* ------------------------------------------------------------------------
\* lib/api.ts: requestVisualization
\* ------------------------------------------------------------------------
VizCap == 50

VizRequest(question, sql, columns, rows) ==
  [url |-> "/api/visualize", method |-> "POST",
   contentType |-> "application/json",
   body |-> [question |-> question, sql |-> sql, columns |-> columns,
             rows |-> Slice(rows, VizCap)]]

\* what requestVisualization settles with when fetch settles with res
requestVisualization(res) ==
  IF res.net = "error" THEN Err(res.message)
  ELSE IF ~res.ok THEN Ok(Null)
  ELSE IF ~res.body.json THEN Err(JsonSyntaxError(res.body.text))
  ELSE IF res.body.value = Null
  THEN Err("Cannot read properties of null (reading 'chart')")
  ELSE Ok(validateChartSpec(Get(res.body.value, "chart")))

\* ------------------------------------------------------------------------
\* lib/duckdb.ts: what conn.query settles with inside executeQuery.
\*   Table(k)   a result table with one column and k rows
\*   Thrown(e)  a rejection; e is an Error with a message, or another value
\* ------------------------------------------------------------------------
Table(k) == [ok |-> TRUE, fields |-> <<"v">>, numRows |-> k]
ThrownError(m) == [ok |-> FALSE, isError |-> TRUE, message |-> m]
ThrownOther == [ok |-> FALSE, isError |-> FALSE]

\* the QueryResult built by executeQuery from a result table
QueryResultOf(t) ==
  [columns |-> t.fields,
   rows |-> [r \in 1..t.numRows |-> [c \in {t.fields[1]} |-> r]]]

\* ------------------------------------------------------------------------
\* Inputs of the orchestrator: what the endpoint and the engine may answer
\* ------------------------------------------------------------------------
SeqsUpTo(S, n) == UNION {[1..m -> S] : m \in 0..n}

\* a field that is absent or has one of the values of S
Opt(name, S) == {<<>>} \cup {[n \in {name} |-> v] : v \in S}

RawQueries ==
  {Obj([title |-> Str("Count rows"), sql |-> Str("SELECT A")]),
   Obj([id |-> Num(7), title |-> Str("Top rows"), sql |-> Str("SELECT B"),
        rationale |-> Str("why")]),
   Obj([title |-> Str("No sql")])}

PlanResponses ==
  {NetError("Failed to fetch"),
   Response(FALSE, 500, Json(Obj([error |-> Str("Server error")]))),
   Response(FALSE, 502,
            NotJson("<html><body>Bad gateway</body></html>")),
   Response(TRUE, 200, Json(Str("not a plan"))),
   Response(TRUE, 200, Json(Obj([plan |-> Arr(<<>>)])))}
  \cup {Response(TRUE, 200, Json(Obj([queries |-> Arr(qs)]))) :
          qs \in SeqsUpTo(RawQueries, MaxPlan)}

\* an empty table, a table MaxRows rows longer than the row cap of the
\* synthesis payload, and the two kinds of failure
EngineOutcomes ==
  {Table(0), Table(RowCap + MaxRows), ThrownError("syntax error"), ThrownOther}

RawInsights ==
  {Obj([title |-> Str("I1"), finding |-> Str("F1"), sql |-> Str("SELECT A"),
        priority |-> Str("high")]),
   Obj([title |-> Str("I2"), finding |-> Str("F2"), sql |-> Str("SELECT B")])}

SynthResponses ==
  {NetError("Failed to fetch"),
   Response(FALSE, 500, Json(Obj(<<>>))),
   Response(TRUE, 200, Json(Null)),
   Response(TRUE, 200, Json(Obj([insights |-> Arr(<<
     Obj([title |-> Str("No finding"), sql |-> Str("SELECT A")]),
     Obj([title |-> Str("I3"), finding |-> Str("F3")])>>)])))}
  \cup {Response(TRUE, 200,
                 Json(Obj([summary |-> Str("S"), insights |-> Arr(is)]))) :
          is \in SeqsUpTo(RawInsights, MaxInsights)}

\* the few answers explored when calls of runInsights may overlap, and in
\* ChatContainer: a failure, a plan of one query and a plan of two
FewPlanResponses ==
  {NetError("Failed to fetch"),
   Response(TRUE, 200, Json(Obj([queries |-> Arr(<<
     Obj([title |-> Str("Count rows"), sql |-> Str("SELECT A")])>>)]))),
   Response(TRUE, 200, Json(Obj([queries |-> Arr(<<
     Obj([title |-> Str("Count rows"), sql |-> Str("SELECT A")]),
     Obj([title |-> Str("Top rows"), sql |-> Str("SELECT B")])>>)])))}

FewSynthResponses ==
  {Response(FALSE, 500, Json(Obj(<<>>))),
   Response(TRUE, 200, Json(Obj([summary |-> Str("S"), insights |-> Arr(<<
     Obj([title |-> Str("I1"), finding |-> Str("F1"), sql |-> Str("SELECT A"),
          priority |-> Str("high")])>>)])))}

\* ------------------------------------------------------------------------
\* lib/use-insights.ts: useInsights / runInsights.  A call of runInsights
\* is an entry of runs holding the locals of the call; progress is the one
\* state all the calls of a hook write.  runInsights has no guard, so a call
\* can be made while earlier ones are pending: a behaviour has at most
\* budget runs pending together.  With budget = 1 the answers are drawn from
\* PlanResponses, EngineOutcomes and SynthResponses, with overlapping calls
\* from the few of FewPlanResponses and FewSynthResponses.
\* ------------------------------------------------------------------------
VARIABLES
  progress,        \* the progress state of the hook
  runs,            \* the calls of runInsights, in call order; of each:
                   \*   pc               where the run is suspended
                   \*   planReply        what requestAnalysisPlan settled
                   \*                    with (plan)
                   \*   i                the loop index
                   \*   item             the item under execution
                   \*   planWithResults  the list built by the loop
                   \*   synthPayload     planWithResults as sent by
                   \*                    synthesizeInsights
                   \*   synthReply       what synthesizeInsights settled
                   \*                    with (response)
                   \*   outcome          how the promise returned by
                   \*                    runInsights settled
                   \*   inflight         0-based indexes of its
                   \*                    executeQuery calls not yet settled
                   \*   issued           history: sql of its executeQuery
                   \*                    calls, in call order
                   \*   engineLog        history: what each of its
                   \*                    executeQuery calls settled with
                   \*   snapshots        history: its setProgress calls
  budget,          \* how many runs are pending together at most in this
                   \* behaviour
  vfn,             \* the library function applied to vin, "none" before
  vin,             \* the argument of a direct call of a library function
  vout,            \* what that call returned or threw
  messages,        \* ChatContainer: the messages state
  isLoading,       \* ChatContainer: the isLoading state
  rendered,        \* ChatContainer: the values its last render gave the
                   \* handlers (isLoading, messages, insightsProgress)
  ops,             \* ChatContainer: the calls of handleSend and
                   \* handleGetInsights that passed the isLoading guard
  ignored,         \* history: some call has returned at the guard
  home,            \* Home: its state, schema, fileName and error
  selects,         \* Home: the calls of handleFileSelect
  resets,          \* Home: the calls of handleReset
  sample,          \* SampleDatasetButton: loading of the mounted button and
                   \* the number of fetches of the sample that are pending
  db,              \* lib/duckdb.ts: the module variable db
  conn             \* lib/duckdb.ts: the module variable conn

vars == <<progress, runs, budget, vfn, vin, vout, messages, isLoading,
          rendered, ops, ignored, home, selects, resets, sample, db, conn>>

\* the variables of the components of the page and of lib/duckdb.ts
chatVars == <<messages, isLoading, rendered, ops, ignored>>
homeVars == <<home, selects, resets, sample, db, conn>>
pageVars == <<chatVars, homeVars>>

\* the variables of the direct calls of the library functions
callVars == <<vfn, vin, vout>>

\* the variables of the hook
runVars == <<progress, runs, budget>>

None == [st |-> "none"]
Pending == [st |-> "pending"]

\* useState initial value
InitialProgress ==
  [phase |-> "done", totalQueries |-> 0, completedQueries |-> 0]

ProgressPlanning ==
  [phase |-> "planning", totalQueries |-> 0, completedQueries |-> 0]

\* ProgressExecuting with the counter set to the total
ProgressExecuting_StartsFull(n) ==
  [phase |-> "executing", totalQueries |-> n, completedQueries |-> n]

ProgressExecuting(n) ==
  [phase |-> "executing", totalQueries |-> n, completedQueries |-> 0]

\* ProgressQuery without the title of the item
ProgressQuery_NoTitle(n, idx, title) ==
  [phase |-> "executing", totalQueries |-> n, completedQueries |-> idx]

\* ProgressQuery counting the item under execution as completed
ProgressQuery_CountsCurrent(n, idx, title) ==
  [phase |-> "executing", totalQueries |-> n, completedQueries |-> idx + 1,
   currentQueryTitle |-> title]

ProgressQuery(n, idx, title) ==
  [phase |-> "executing", totalQueries |-> n, completedQueries |-> idx,
   currentQueryTitle |-> title]

ProgressSynthesizing(n) ==
  [phase |-> "synthesizing", totalQueries |-> n, completedQueries |-> n]

\* ProgressDone falling back to the snapshot a run starts with
ProgressDone_Resets(n) ==
  [phase |-> "planning", totalQueries |-> 0, completedQueries |-> 0]

ProgressDone(n) ==
  [phase |-> "done", totalQueries |-> n, completedQueries |-> n]

EmptyPlanMessage == "No analysis queries were generated. Please try again."

\* plan.queries of a run
QueriesOf(run) ==
  IF run.planReply.st = "ok" THEN run.planReply.value.queries ELSE <<>>

\* const item = { id, title, sql, rationale }
NewItem(query) ==
  [id |-> query.id, title |-> query.title, sql |-> query.sql,
   rationale |-> query.rationale]

\* Attach with the error recorded only for Error instances
Attach_ErrorInstancesOnly(it, out) ==
  IF out.ok THEN it @@ [result |-> QueryResultOf(out)]
  ELSE IF out.isError THEN it @@ [error |-> out.message]
  ELSE it

\* try { item.result = await executeQuery(sql) } catch (err) { item.error = .. }
Attach(it, out) ==
  IF out.ok THEN it @@ [result |-> QueryResultOf(out)]
  ELSE it @@ [error |-> IF out.isError THEN out.message
                        ELSE "Query execution failed"]

\* LoopContinues stopping one item early
LoopContinues_OffByOne(idx, n) == idx < n - 1

\* the loop condition i < plan.queries.length
LoopContinues(idx, n) == idx < n

\* Find returning the first matching entry that has a result
RECURSIVE Find_FirstWithResult(_, _)
Find_FirstWithResult(list, sql) ==
  IF list = <<>> THEN <<>>
  ELSE IF Head(list).sql = sql /\ "result" \in DOMAIN Head(list)
  THEN <<Head(list)>>
  ELSE Find_FirstWithResult(Tail(list), sql)

\* planWithResults.find((q) => q.sql === sql): the entry, as a 0- or
\* 1-element sequence
RECURSIVE Find(_, _)
Find(list, sql) ==
  IF list = <<>> THEN <<>>
  ELSE IF Head(list).sql = sql THEN <<Head(list)>>
  ELSE Find(Tail(list), sql)

\* { ...insight, queryResult: matchingQuery?.result }
WithQueryResult(insight, list) ==
  LET matchingQuery == Find(list, insight.sql) IN
  IF matchingQuery # <<>> /\ "result" \in DOMAIN matchingQuery[1]
  THEN insight @@ [queryResult |-> matchingQuery[1].result]
  ELSE insight

\* the hook before any call of runInsights
Idle ==
  /\ progress = InitialProgress
  /\ runs = <<>>

\* Home's useState initial values: lines 142-145
AtUpload ==
  [state |-> "upload", schema |-> Null, fileName |-> "", error |-> ""]

\* the page as loaded: ChatContainer's useState initial values (lines
\* 24-27), Home's (lines 142-145), and db and conn of lib/duckdb.ts
FreshPage ==
  /\ messages = <<>>
  /\ isLoading = FALSE
  /\ rendered = [isLoading |-> FALSE, messages |-> <<>>,
                 insightsProgress |-> InitialProgress]
  /\ ops = <<>>
  /\ ignored = FALSE
  /\ home = AtUpload
  /\ selects = <<>>
  /\ resets = <<>>
  /\ sample = [loading |-> FALSE, pending |-> 0]
  /\ db = Null
  /\ conn = Null

\* no call of runInsights and no direct call of a library function yet
Init ==
  /\ Idle /\ budget \in 1..MaxRuns
  /\ vfn = "none" /\ vin = None /\ vout = None
  /\ FreshPage

\* the page with the one user of the hook, whose calls never overlap
InitPage ==
  /\ Idle /\ budget = 1
  /\ vfn = "none" /\ vin = None /\ vout = None
  /\ FreshPage

\* a run up to the await of the plan request: lines 26-34
NewRun ==
  [pc |-> "awaitPlan", planReply |-> Pending, i |-> 0, item |-> None,
   planWithResults |-> <<>>, synthPayload |-> <<>>, synthReply |-> None,
   outcome |-> Pending, inflight |-> {}, issued |-> <<>>,
   engineLog |-> <<>>, snapshots |-> <<ProgressPlanning>>]

\* the runs a new call is appended to: the locals and the promise of a
\* settled run are let go once no run is pending
Live ==
  IF \A r \in DOMAIN runs : runs[r].pc \in {"resolved", "rejected"}
  THEN <<>> ELSE runs

\* runInsights() is called, whether or not an earlier run is pending: the
\* function has no guard
CallRunInsights ==
  /\ runs' = Append(Live, NewRun)
  /\ progress' = ProgressPlanning

\* the hook used on its own
Start ==
  /\ Len(Live) < budget
  /\ CallRunInsights
  /\ UNCHANGED <<budget, callVars, pageVars>>

\* EnterQuery dispatching item idx and all later items without awaiting
EnterQuery_NoAwait(run, idx) ==
  LET queries == QueriesOf(run)
      query == queries[idx + 1]
      p == ProgressQuery(Len(queries), idx, query.title) IN
  [run EXCEPT !.snapshots = Append(@, p),
              !.i = idx,
              !.item = NewItem(query),
              !.inflight = @ \cup (idx..(Len(queries) - 1)),
              !.issued = @ \o [j \in 1..(Len(queries) - idx) |->
                                 queries[idx + j].sql],
              !.pc = "awaitQuery"]

\* the loop head for item idx: setProgress, build the item, call executeQuery
EnterQuery(run, idx) ==
  LET queries == QueriesOf(run)
      query == queries[idx + 1]
      p == ProgressQuery(Len(queries), idx, query.title) IN
  [run EXCEPT !.snapshots = Append(@, p),
              !.i = idx,
              !.item = NewItem(query),
              !.inflight = @ \cup {idx},
              !.issued = Append(@, query.sql),
              !.pc = "awaitQuery"]

\* lines 75-82, up to the await of the synthesis request
EnterSynthesis(run, idx) ==
  [run EXCEPT !.snapshots =
                Append(@, ProgressSynthesizing(Len(QueriesOf(run)))),
              !.synthPayload = Capped(run.planWithResults),
              !.synthReply = Pending,
              !.i = idx,
              !.pc = "awaitSynth"]

\* Loop with the rows capped in place when the synthesis request is built
Loop_CapsInPlace(run, idx) ==
  IF LoopContinues(idx, Len(QueriesOf(run)))
  THEN EnterQuery(run, idx)
  ELSE [EnterSynthesis(run, idx) EXCEPT !.planWithResults = Capped(@)]

\* the for loop of lines 49-73 resumed at index idx
Loop(run, idx) ==
  IF LoopContinues(idx, Len(QueriesOf(run)))
  THEN EnterQuery(run, idx)
  ELSE EnterSynthesis(run, idx)

\* the run after its plan request has settled: lines 34-67, up to the await
\* of the first query
PlanSettlesWith(run, res) ==
  LET plan == requestAnalysisPlan(res)
      got == [run EXCEPT !.planReply = plan] IN
  IF plan.st = "err"
  THEN [got EXCEPT !.outcome = Err(plan.message), !.pc = "rejected"]
  ELSE IF Len(plan.value.queries) = 0
  THEN [got EXCEPT !.outcome = Err(EmptyPlanMessage), !.pc = "rejected"]
  ELSE Loop([got EXCEPT !.snapshots =
               Append(@, ProgressExecuting(Len(plan.value.queries)))], 0)

\* QuerySettlesWith without the try/catch: a failing query rejects the run
QuerySettlesWith_NoCatch(run, out) ==
  LET got == [run EXCEPT !.engineLog = Append(@, out),
                         !.inflight = @ \ {run.i}] IN
  IF out.ok
  THEN Loop([got EXCEPT !.planWithResults = Append(@, Attach(run.item, out))],
            run.i + 1)
  ELSE [got EXCEPT !.outcome = Err(IF out.isError THEN out.message
                                   ELSE "Query execution failed"),
                   !.pc = "rejected"]

\* the run after executeQuery of item i has settled: lines 66-73 and on to
\* the next await
QuerySettlesWith(run, out) ==
  Loop([run EXCEPT !.engineLog = Append(@, out),
                   !.inflight = @ \ {run.i},
                   !.planWithResults = Append(@, Attach(run.item, out))],
       run.i + 1)

\* SynthSettlesWith awaiting again, instead of rejecting, when synthesis
\* fails
SynthSettlesWith_RetriesOnFailure(run, res) ==
  LET response == synthesizeInsights(res) IN
  IF response.st = "err" THEN [run EXCEPT !.synthReply = response]
  ELSE [run EXCEPT
          !.synthReply = response,
          !.snapshots = Append(@, ProgressDone(Len(QueriesOf(run)))),
          !.outcome =
            Ok([summary |-> response.value.summary,
                insights |->
                  [j \in 1..Len(response.value.insights) |->
                     WithQueryResult(response.value.insights[j],
                                     run.planWithResults)]]),
          !.pc = "resolved"]

\* the run after its synthesis request has settled: lines 82-102
SynthSettlesWith(run, res) ==
  LET response == synthesizeInsights(res) IN
  IF response.st = "err"
  THEN [run EXCEPT !.synthReply = response,
                   !.outcome = Err(response.message),
                   !.pc = "rejected"]
  ELSE [run EXCEPT
          !.synthReply = response,
          !.snapshots = Append(@, ProgressDone(Len(QueriesOf(run)))),
          !.outcome =
            Ok([summary |-> response.value.summary,
                insights |->
                  [j \in 1..Len(response.value.insights) |->
                     WithQueryResult(response.value.insights[j],
                                     run.planWithResults)]]),
          !.pc = "resolved"]

\* run r resumes and goes on to after: progress becomes the argument of its
\* last setProgress call, if it made one
Resume(r, after) ==
  /\ runs' = [runs EXCEPT ![r] = after]
  /\ progress' = IF Len(after.snapshots) > Len(runs[r].snapshots)
                 THEN after.snapshots[Len(after.snapshots)]
                 ELSE progress

\* the hook used on its own: the plan request of a run settles with any
\* response (of the few when calls may overlap)
PlanSettles ==
  /\ \E r \in DOMAIN runs :
       /\ runs[r].pc = "awaitPlan"
       /\ \E res \in IF budget = 1 THEN PlanResponses ELSE FewPlanResponses :
            Resume(r, PlanSettlesWith(runs[r], res))
  /\ UNCHANGED <<budget, callVars, pageVars>>

\* the hook used on its own: the query of a run settles with any outcome
QuerySettles ==
  /\ \E r \in DOMAIN runs :
       /\ runs[r].pc = "awaitQuery"
       /\ \E out \in IF budget = 1 THEN EngineOutcomes
                     ELSE {Table(1), ThrownError("syntax error")} :
            Resume(r, QuerySettlesWith(runs[r], out))
  /\ UNCHANGED <<budget, callVars, pageVars>>

\* the hook used on its own: the synthesis request of a run settles with
\* any response
SynthSettles ==
  /\ \E r \in DOMAIN runs :
       /\ runs[r].pc = "awaitSynth"
       /\ \E res \in IF budget = 1 THEN SynthResponses
                     ELSE FewSynthResponses :
            Resume(r, SynthSettlesWith(runs[r], res))
  /\ UNCHANGED <<budget, callVars, pageVars>>

Next == Start \/ PlanSettles \/ QuerySettles \/ SynthSettles

Spec == Init /\ [][Next]_vars

\* every awaited call settles: the plan request, each query, the synthesis
\* request
LiveSpec ==
  /\ Init /\ [][Next]_vars
  /\ WF_vars(PlanSettles)
  /\ WF_vars(QuerySettles)
  /\ WF_vars(SynthSettles)

\* ------------------------------------------------------------------------
\* synthesizeInsights called directly on a list of executed plan items
\* ------------------------------------------------------------------------
\* executed items, with row counts around the row cap
LocalItems ==
  {Attach(NewItem(q), out) :
     q \in {[id |-> "q1", title |-> "Count rows", sql |-> "SELECT A",
             rationale |-> Str("")],
            [id |-> "7", title |-> "Top rows", sql |-> "SELECT B",
             rationale |-> Str("why")]},
     out \in {Table(k) :
                k \in {0, 1} \cup ((RowCap - 1)..(RowCap + MaxOver))}
              \cup {ThrownError("syntax error")}}

InitSynthesize ==
  /\ Idle /\ budget = 1
  /\ FreshPage
  /\ vfn = "none"
  /\ vin \in SeqsUpTo(LocalItems, MaxSent)
  /\ vout = None

\* synthesizeInsights(schema, vin) up to the fetch of lines 263-267: vout is
\* the planWithResults of the request body
SendSynthesis ==
  /\ vfn = "none"
  /\ vfn' = "synthesizeInsights"
  /\ vout' = Capped(vin)
  /\ UNCHANGED <<vin, runVars, pageVars>>

NextSynthesize == SendSynthesis

SynthesizeSpec == InitSynthesize /\ [][NextSynthesize]_vars

\* ------------------------------------------------------------------------
\* The two validators called on their own: vin is the decoded value handed
\* to the validator, vout what it returns or throws
\* ------------------------------------------------------------------------
MaxRaw == 3
MaxRawInsights == 2

\* elements of a raw `queries` array: accepted ones with every kind of id
\* and rationale, and ones the loop drops
RawElements ==
  {Obj([title |-> Str("T"), sql |-> Str("SELECT A")]),
   Obj([id |-> Str("q2"), title |-> Str("T"), sql |-> Str("SELECT B")]),
   Obj([id |-> Str(""), title |-> Str("T"), sql |-> Str("SELECT C"),
        rationale |-> Num(5)]),
   Obj([id |-> Num(7), title |-> Str("T"), sql |-> Str("SELECT D"),
        rationale |-> Str("why")]),
   Obj([id |-> Num(0), title |-> Str("T"), sql |-> Str("SELECT E"),
        rationale |-> Str("")]),
   Obj([id |-> Num(12), title |-> Str(""), sql |-> Str(""),
        rationale |-> Num(0)]),
   Obj([id |-> Bool(TRUE), title |-> Str("T"), sql |-> Str("SELECT F"),
        rationale |-> Bool(TRUE)]),
   Obj([id |-> Null, title |-> Str("T"), sql |-> Str("SELECT G"),
        rationale |-> Obj(<<>>)]),
   Obj([id |-> Arr(<<>>), title |-> Str("T"), sql |-> Str("SELECT H"),
        rationale |-> Arr(<<>>)]),
   Obj([title |-> Str("No sql")]),
   Obj([id |-> Str("q1"), title |-> Num(1), sql |-> Str("SELECT I")]),
   Str("SELECT J"),
   Null,
   Arr(<<Str("T"), Str("SELECT K")>>)}

\* elements of a raw `insights` array
RawInsightElements ==
  RawInsights \cup
  {Obj([title |-> Str("No finding"), sql |-> Str("SELECT A")]),
   Obj([title |-> Str("I4"), finding |-> Str("F4"), priority |-> Str("urgent"),
        chart |-> Obj([type |-> Str("bar"), xKey |-> Str("x"),
                       yKey |-> Str("y")])]),
   Obj([title |-> Str("I5"), finding |-> Str("F5"), sql |-> Num(1),
        chart |-> Obj([type |-> Str("radar"), xKey |-> Str("x"),
                       yKeys |-> Arr(<<Obj([key |-> Str("y")])>>)])]),
   Obj([title |-> Str("I6"), finding |-> Str("F6"), sql |-> Str(""),
        priority |-> Str("low")]),
   Obj([title |-> Str("I7"), finding |-> Num(7), priority |-> Num(2)]),
   Str("insight")}

\* bodies of a chat response
LLMBodies ==
  {Obj(sq @@ ex @@ ch) :
     sq \in Opt("sql", {Str("SELECT 1"), Str(""), Null, Num(1)}),
     ex \in Opt("explanation", {Str("test"), Null, Num(2)}),
     ch \in Opt("chart",
                {Obj([type |-> Str("bar"), xKey |-> Str("x"),
                      yKey |-> Str("y"), title |-> Str("T")]),
                 Obj([type |-> Str("radar"), xKey |-> Str("x"),
                      yKey |-> Str("y")]),
                 Str("bar")})}

\* decoded JSON values of every top-level kind, and objects with `queries`
\* or `insights` that are not arrays
OtherInputs ==
  LLMBodies \cup
  {Undefined, Null, Str(""), Str("text"), Num(0), Num(5), Bool(TRUE),
   Bool(FALSE), Arr(<<>>),
   Arr(<<Obj([title |-> Str("T"), sql |-> Str("SELECT A")])>>),
   Obj(<<>>), Obj([queries |-> Null]), Obj([queries |-> Str("SELECT A")]),
   Obj([queries |-> Num(1)]), Obj([queries |-> Obj(<<>>)]),
   Obj([summary |-> Str("S")]), Obj([insights |-> Str("text")]),
   Obj([summary |-> Num(3), insights |-> Obj(<<>>)])}

\* objects with a `queries` array
PlanInputs == {Obj([queries |-> Arr(qs)]) : qs \in SeqsUpTo(RawElements, MaxRaw)}

\* objects with an `insights` array; a `summary` is absent, present or of
\* the wrong type
InsightInputs ==
  {Obj(sm @@ [insights |-> Arr(is)]) :
     sm \in {<<>>, [summary |-> Str("S")], [summary |-> Str("")],
             [summary |-> Num(3)], [summary |-> Null],
             [summary |-> Arr(<<>>)]},
     is \in SeqsUpTo(RawInsightElements, MaxRawInsights)}

InitValidator ==
  /\ Idle /\ budget = 1
  /\ FreshPage
  /\ vfn = "none"
  /\ \/ vin \in OtherInputs
     \/ vin \in PlanInputs
     \/ vin \in InsightInputs
  /\ vout = None

\* validatePlanResponse(vin)
ValidatePlan ==
  /\ vfn = "none"
  /\ vfn' = "validatePlanResponse"
  /\ vout' = validatePlanResponse(vin)
  /\ UNCHANGED <<vin, runVars, pageVars>>

\* validateInsightsResponse(vin)
ValidateInsightsCall ==
  /\ vfn = "none"
  /\ vfn' = "validateInsightsResponse"
  /\ vout' = validateInsightsResponse(vin)
  /\ UNCHANGED <<vin, runVars, pageVars>>

\* validateLLMResponse(vin)
ValidateLLM ==
  /\ vfn = "none"
  /\ vfn' = "validateLLMResponse"
  /\ vout' = validateLLMResponse(vin)
  /\ vin' = LLMInputAfter(vin)
  /\ UNCHANGED <<runVars, pageVars>>

NextValidator == ValidatePlan \/ ValidateInsightsCall \/ ValidateLLM

ValidatorSpec == InitValidator /\ [][NextValidator]_vars

\* ------------------------------------------------------------------------
\* Chart validation called on its own: vin is a decoded `chart` value, vout
\* what validateChartSpec returns for it, or what validateInsightsResponse
\* returns for a response whose one insight carries it
\* ------------------------------------------------------------------------
MaxYKeys == 2

RawCharts ==
  LET RawYKeys ==
        {Obj([key |-> Str("sales")]),
         Obj([key |-> Str("profit"), label |-> Str("Profit"),
              color |-> Num(1)]),
         Obj([key |-> Num(1), label |-> Str("One")]),
         Str("sales")} IN
  {Undefined, Null, Str("bar"), Num(1), Arr(<<>>)}
  \cup {Obj(ty @@ xk @@ ti @@ yk @@ st @@ yks) :
          ty \in Opt("type", {Str("bar"), Str("pie"), Str("radar")}),
          xk \in Opt("xKey", {Str("region"), Num(1)}),
          ti \in Opt("title", {Str("T"), Num(2)}),
          yk \in Opt("yKey", {Str("sales"), Num(3)}),
          st \in Opt("stacked", {Bool(TRUE), Str("yes")}),
          yks \in Opt("yKeys",
                      {Str("sales")}
                        \cup {Arr(a) : a \in SeqsUpTo(RawYKeys, MaxYKeys)})}

\* a synthesis response whose one insight has the chart field c (no chart
\* field when c is undefined: JSON has no undefined)
InsightWith(c) ==
  Obj([insights |->
         Arr(<<Obj([title |-> Str("I"), finding |-> Str("F")]
                     @@ (IF c = Undefined THEN <<>> ELSE [chart |-> c]))>>)])

InitChart ==
  /\ Idle /\ budget = 1
  /\ FreshPage
  /\ vfn = "none"
  /\ vin \in RawCharts
  /\ vout = None

\* validateChartSpec(vin)
ValidateChart ==
  /\ vfn = "none"
  /\ vfn' = "validateChartSpec"
  /\ vout' = Ok(validateChartSpec(vin))
  /\ UNCHANGED <<vin, runVars, pageVars>>

\* validateChartSpec applied to the ChartSpec it returned
ValidateChartAgain ==
  /\ vfn = "validateChartSpec"
  /\ vout.value # Null
  /\ vfn' = "validateChartSpec again"
  /\ vin' = vout.value
  /\ vout' = Ok(validateChartSpec(vout.value))
  /\ UNCHANGED <<runVars, pageVars>>

\* validateInsightsResponse({insights: [{title: "I", finding: "F", chart: vin}]})
ValidateInsightChart ==
  /\ vfn = "none"
  /\ vfn' = "validateInsightsResponse"
  /\ vout' = validateInsightsResponse(InsightWith(vin))
  /\ UNCHANGED <<vin, runVars, pageVars>>

NextChart == ValidateChart \/ ValidateChartAgain \/ ValidateInsightChart

ChartValidatorSpec == InitChart /\ [][NextChart]_vars

\* ------------------------------------------------------------------------
\* The two remote calls on their own: vin is what fetch settles with, vout
\* what the call settles with
\* ------------------------------------------------------------------------
\* bodies of a failure response
FailureBodies ==
  {NotJson("<html><body>Bad gateway</body></html>"), Json(Null),
   Json(Str("Bad gateway")), Json(Num(0)),
   Json(Obj(<<>>)), Json(Obj([message |-> Str("Server error")])),
   Json(Obj([error |-> Arr(<<>>)])),
   Json(Obj([error |-> Arr(<<Str("a"), Null, Num(0)>>)])),
   Json(Obj([error |-> Str("Server error")])),
   Json(Obj([error |-> Str("Rate limited"), code |-> Num(429)])),
   Json(Obj([error |-> Str("")])), Json(Obj([error |-> Null])),
   Json(Obj([error |-> Num(5)])), Json(Obj([error |-> Bool(FALSE)]))}

\* bodies of a success response
SuccessBodies ==
  {NotJson("<html><body>Bad gateway</body></html>"), NotJson(""),
   NotJson("Internal Server Error"), NotJson("Not Found"),
   Json(Null), Json(Arr(<<>>)), Json(Obj(<<>>)),
   Json(Obj([error |-> Str("Server error")])),
   Json(Obj([queries |-> Arr(<<>>)])),
   Json(Obj([queries |-> Arr(<<Obj([title |-> Str("T"),
                                    sql |-> Str("SELECT A")])>>)])),
   Json(Obj([summary |-> Str("S"), insights |-> Arr(<<>>)])),
   Json(Obj([insights |-> Arr(<<Obj([title |-> Str("I1"),
                                     finding |-> Str("F1")])>>)]))}

RemoteResponses ==
  {NetError("Failed to fetch"), NetError("The operation was aborted.")}
  \cup {Response(FALSE, st, b) : st \in {400, 404, 429, 500, 502, 503},
                                  b \in FailureBodies}
  \cup {Response(TRUE, st, b) : st \in {200, 201}, b \in SuccessBodies}

InitRemote ==
  /\ Idle /\ budget = 1
  /\ FreshPage
  /\ vfn = "none"
  /\ vin \in RemoteResponses
  /\ vout = None

\* requestAnalysisPlan(schema) whose fetch settles with vin
RequestPlan ==
  /\ vfn = "none"
  /\ vfn' = "requestAnalysisPlan"
  /\ vout' = requestAnalysisPlan(vin)
  /\ UNCHANGED <<vin, runVars, pageVars>>

\* synthesizeInsights(schema, planWithResults) whose fetch settles with vin
Synthesize ==
  /\ vfn = "none"
  /\ vfn' = "synthesizeInsights"
  /\ vout' = synthesizeInsights(vin)
  /\ UNCHANGED <<vin, runVars, pageVars>>

NextRemote == RequestPlan \/ Synthesize

RemoteSpec == InitRemote /\ [][NextRemote]_vars

\* ------------------------------------------------------------------------
\* sendChatMessage on its own: vin holds the two arguments and what fetch
\* settles with, vout the requests issued and what the call settles with
\* ------------------------------------------------------------------------
MaxMessages == 2

ChatSchemas ==
  {[tableName |-> "t", columns |-> <<>>, sampleRows |-> <<>>, rowCount |-> 0],
   [tableName |-> "sales",
    columns |-> <<[name |-> "id", type |-> "INTEGER"]>>,
    sampleRows |-> <<>>, rowCount |-> 3]}

ChatHistory ==
  {[role |-> "user", content |-> "hello"],
   [role |-> "assistant", content |-> "Here are the rows."]}

ChatResponses ==
  {NetError("Failed to fetch")}
  \cup {Response(FALSE, st, b) : st \in {404, 500}, b \in FailureBodies}
  \cup {Response(TRUE, 200, NotJson("<html><body>Bad gateway</body></html>")),
        Response(TRUE, 200, NotJson("")),
        Response(TRUE, 200, NotJson("Not Found")),
        Response(TRUE, 200, Json(Null)),
        Response(TRUE, 200, Json(Str("SELECT 1"))),
        Response(TRUE, 200, Json(Arr(<<>>)))}
  \cup {Response(TRUE, 200, Json(b)) : b \in LLMBodies}

InitChat ==
  /\ Idle /\ budget = 1
  /\ FreshPage
  /\ vfn = "none"
  /\ vin \in [schema : ChatSchemas,
              messages : SeqsUpTo(ChatHistory, MaxMessages),
              res : ChatResponses]
  /\ vout = None

\* sendChatMessage(vin.schema, vin.messages) whose fetch settles with vin.res
SendChat ==
  /\ vfn = "none"
  /\ vfn' = "sendChatMessage"
  /\ vout' = sendChatMessage(vin.schema, vin.messages, vin.res)
  /\ UNCHANGED <<vin, runVars, pageVars>>

NextChat == SendChat

ChatSpec == InitChat /\ [][NextChat]_vars

\* ------------------------------------------------------------------------
\* components/chat/chat-container.tsx: ChatContainer.  A call of a handler
\* that passes the isLoading guard is an entry of ops; it advances when the
\* call it awaits settles.  The handlers read isLoading, messages and
\* insightsProgress as their render captured them (rendered); the state
\* updates a handler makes before its first await are rendered before the
\* next event is handled, the later ones by Render.
\* ------------------------------------------------------------------------
MaxOps == 2

\* the schema prop
MountedSchema ==
  [tableName |-> "sales", columns |-> <<[name |-> "id", type |-> "INTEGER"]>>,
   sampleRows |-> <<>>, rowCount |-> 3]

ContainerChatResponses ==
  {NetError("Failed to fetch"),
   Response(FALSE, 500, Json(Obj([error |-> Str("Server error")]))),
   Response(TRUE, 200, Json(Obj([explanation |-> Str("no query needed")]))),
   Response(TRUE, 200, Json(Obj([sql |-> Str(""),
                                 explanation |-> Str("nothing to run")]))),
   Response(TRUE, 200, Json(Obj([sql |-> Str("SELECT 1"),
                                 explanation |-> Str("test")])))}

VizResponses ==
  {NetError("Failed to fetch"),
   Response(FALSE, 500, Json(Obj([error |-> Str("Server error")]))),
   Response(TRUE, 200, Json(Null)),
   Response(TRUE, 200, Json(Obj([chart |-> Obj([type |-> Str("radar")])]))),
   Response(TRUE, 200, Json(Obj([chart |->
     Obj([type |-> Str("bar"), title |-> Str("T"), xKey |-> Str("x"),
          yKeys |-> Arr(<<Obj([key |-> Str("y")])>>)])])))}

\* what a render hands to the handlers it creates
RenderOf(loading, msgs, prog) ==
  [isLoading |-> loading, messages |-> msgs, insightsProgress |-> prog]

\* the guard without its test
Busy_Never(r) == FALSE

\* if (isLoading) return;  lines 40 and 134
Busy(r) == r.isLoading

\* prev.map((m) => m.id === id ? { ...m, ...fields } : m)
Patch(msgs, id, fields) ==
  [j \in 1..Len(msgs) |->
     IF msgs[j].id = id THEN fields @@ msgs[j] ELSE msgs[j]]

\* op k moves to pc p with the fields of upd
Advance(k, p, upd) ==
  [ops EXCEPT ![k] = [pc |-> p] @@ upd @@ ops[k]]

\* history of op k: the calls it made and what they settled with
Logged(k, name, x) == [n \in {name} |-> Append(ops[k][name], x)]

\* a call that returns at the guard
Ignored ==
  /\ ignored' = TRUE
  /\ UNCHANGED <<messages, isLoading, rendered, ops>>

\* handleSend(content) up to the await of sendChatMessage: lines 38-67
HandleSend ==
  /\ \E content \in {"How many rows?"} :
       IF Busy(rendered) THEN Ignored
       ELSE LET userMsg == [id |-> Len(messages) + 1, role |-> "user",
                            content |-> content]
                assistantMsg == [id |-> Len(messages) + 2,
                                 role |-> "assistant", content |-> "",
                                 loading |-> TRUE]
                shown == Append(rendered.messages, userMsg)
                historyForApi == [j \in 1..Len(shown) |->
                                    [role |-> shown[j].role,
                                     content |-> shown[j].content]] IN
            /\ Len(ops) < MaxOps
            /\ messages' = messages \o <<userMsg, assistantMsg>>
            /\ isLoading' = TRUE
            /\ ops' = Append(ops,
                 [kind |-> "send", pc |-> "awaitChat",
                  id |-> assistantMsg.id, content |-> content,
                  calls |-> <<ChatRequest(MountedSchema, historyForApi)>>,
                  results |-> <<>>])
            /\ rendered' = RenderOf(TRUE, messages', progress)
            /\ UNCHANGED ignored
  /\ UNCHANGED <<runVars, callVars, homeVars>>

\* lines 97-111 and 126-128: the last update of the message, isLoading reset
SendCompletes(k, r, llmResponse, chartSpec, queryResult, queryError) ==
  /\ messages' = Patch(messages, ops[k].id,
       [content |-> Get(llmResponse, "explanation").s,
        sql |-> Get(llmResponse, "sql").s,
        chart |-> chartSpec, queryResult |-> queryResult,
        error |-> queryError, loading |-> FALSE])
  /\ isLoading' = FALSE
  /\ ops' = Advance(k, "done", Logged(k, "results", r))

\* lines 112-128: the catch of handleSend
SendFails(k, r, errorMessage) ==
  /\ messages' = Patch(messages, ops[k].id,
                       [content |-> errorMessage, loading |-> FALSE])
  /\ isLoading' = FALSE
  /\ ops' = Advance(k, "done", Logged(k, "results", r))

\* sendChatMessage settles: lines 64-75, or on to the end
ChatSettles ==
  /\ \E k \in DOMAIN ops, res \in ContainerChatResponses :
       LET llm == ChatResult(res) IN
       /\ ops[k].kind = "send"
       /\ ops[k].pc = "awaitChat"
       /\ IF llm.st = "err" THEN SendFails(k, llm, llm.message)
          ELSE IF Truthy(Get(llm.value, "sql"))
          THEN /\ ops' = Advance(k, "awaitQuery",
                   [llmResponse |-> llm.value] @@ Logged(k, "results", llm)
                   @@ Logged(k, "calls", [fn |-> "executeQuery",
                                 sql |-> Get(llm.value, "sql").s]))
               /\ UNCHANGED <<messages, isLoading>>
          ELSE SendCompletes(k, llm, llm.value, Undefined, Undefined,
                             Undefined)
  /\ UNCHANGED <<rendered, ignored, runVars, callVars, homeVars>>

\* SendQuerySettles where a failing query ends in the catch of line 112
SendQuerySettles_Fatal ==
  /\ \E k \in DOMAIN ops, out \in EngineOutcomes :
       /\ ops[k].kind = "send"
       /\ ops[k].pc = "awaitQuery"
       /\ IF ~out.ok
          THEN SendFails(k, out, IF out.isError THEN out.message
                                 ELSE "Something went wrong")
          ELSE LET queryResult == QueryResultOf(out) IN
               IF Len(queryResult.rows) > 0
               THEN /\ ops' = Advance(k, "awaitChart",
                        [queryResult |-> queryResult]
                        @@ Logged(k, "results", out)
                        @@ Logged(k, "calls", VizRequest(ops[k].content,
                                     Get(ops[k].llmResponse, "sql").s,
                                     queryResult.columns, queryResult.rows)))
                    /\ UNCHANGED <<messages, isLoading>>
               ELSE SendCompletes(k, out, ops[k].llmResponse, Undefined,
                                  queryResult, Undefined)
  /\ UNCHANGED <<rendered, ignored, runVars, callVars, homeVars>>

\* executeQuery settles: lines 75-89, or on to the end
SendQuerySettles ==
  /\ \E k \in DOMAIN ops, out \in EngineOutcomes :
       /\ ops[k].kind = "send"
       /\ ops[k].pc = "awaitQuery"
       /\ IF ~out.ok
          THEN SendCompletes(k, out, ops[k].llmResponse, Undefined,
                             Undefined,
                             Str(IF out.isError THEN out.message
                                 ELSE "SQL execution failed"))
          ELSE LET queryResult == QueryResultOf(out) IN
               IF Len(queryResult.rows) > 0
               THEN /\ ops' = Advance(k, "awaitChart",
                        [queryResult |-> queryResult]
                        @@ Logged(k, "results", out)
                        @@ Logged(k, "calls", VizRequest(ops[k].content,
                                     Get(ops[k].llmResponse, "sql").s,
                                     queryResult.columns, queryResult.rows)))
                    /\ UNCHANGED <<messages, isLoading>>
               ELSE SendCompletes(k, out, ops[k].llmResponse, Undefined,
                                  queryResult, Undefined)
  /\ UNCHANGED <<rendered, ignored, runVars, callVars, homeVars>>

\* requestVisualization settles: lines 90-111
ChartSettles ==
  /\ \E k \in DOMAIN ops, res \in VizResponses :
       LET chart == requestVisualization(res) IN
       /\ ops[k].kind = "send"
       /\ ops[k].pc = "awaitChart"
       /\ SendCompletes(k, chart, ops[k].llmResponse,
                        IF chart.st = "ok" /\ Truthy(chart.value)
                        THEN chart.value ELSE Undefined,
                        ops[k].queryResult, Undefined)
  /\ UNCHANGED <<rendered, ignored, runVars, callVars, homeVars>>

\* handleGetInsights() up to the await of runInsights: lines 133-171
HandleGetInsights ==
  /\ IF Busy(rendered) THEN Ignored /\ UNCHANGED runVars
     ELSE LET userMsg == [id |-> Len(messages) + 1, role |-> "user",
                          content |-> "Get insights from this dataset"]
              assistantMsg == [id |-> Len(messages) + 2,
                               role |-> "assistant",
                               content |-> "Analyzing your dataset...",
                               loading |-> TRUE,
                               insightsProgress |-> ProgressPlanning] IN
          /\ Len(ops) < MaxOps
          /\ messages' = messages \o <<userMsg, assistantMsg>>
          /\ isLoading' = TRUE
          /\ ops' = Append(ops,
               [kind |-> "insights", pc |-> "awaitRun",
                id |-> assistantMsg.id,
                insightsProgress |-> rendered.insightsProgress,
                progressInterval |-> TRUE])
          /\ CallRunInsights
          /\ rendered' = RenderOf(TRUE, messages', progress')
          /\ UNCHANGED <<ignored, budget>>
  /\ UNCHANGED <<callVars, homeVars>>

\* updateProgress, called by the interval of line 168: lines 159-167
UpdateProgress ==
  /\ \E k \in DOMAIN ops :
       /\ ops[k].kind = "insights"
       /\ ops[k].progressInterval
       /\ messages' = Patch(messages, ops[k].id,
            [insightsProgress |-> ops[k].insightsProgress])
  /\ UNCHANGED <<isLoading, rendered, ops, ignored, runVars, callVars,
                 homeVars>>

\* AfterRunInsights without clearInterval in the catch
AfterRunInsights_IntervalLeft ==
  LET run == runs'[Len(runs')] IN
  IF run.pc \notin {"resolved", "rejected"}
  THEN UNCHANGED <<messages, isLoading, ops>>
  ELSE \E k \in DOMAIN ops :
         /\ ops[k].kind = "insights"
         /\ ops[k].pc = "awaitRun"
         /\ messages' = Patch(messages, ops[k].id,
              IF run.pc = "resolved"
              THEN [content |-> run.outcome.value.summary,
                    insightsSummary |-> run.outcome.value.summary,
                    insights |-> run.outcome.value.insights,
                    loading |-> FALSE,
                    insightsProgress |->
                      [phase |-> "done", totalQueries |-> 0,
                       completedQueries |-> 0]]
              ELSE [content |-> run.outcome.message, loading |-> FALSE,
                    insightsProgress |-> Undefined])
         /\ isLoading' = FALSE
         /\ ops' = Advance(k, "done",
                           [progressInterval |-> run.pc = "rejected"])

\* handleGetInsights after the await of runInsights, when the run settles
\* in this step: lines 171-210
AfterRunInsights ==
  LET run == runs'[Len(runs')] IN
  IF run.pc \notin {"resolved", "rejected"}
  THEN UNCHANGED <<messages, isLoading, ops>>
  ELSE \E k \in DOMAIN ops :
         /\ ops[k].kind = "insights"
         /\ ops[k].pc = "awaitRun"
         /\ messages' = Patch(messages, ops[k].id,
              IF run.pc = "resolved"
              THEN [content |-> run.outcome.value.summary,
                    insightsSummary |-> run.outcome.value.summary,
                    insights |-> run.outcome.value.insights,
                    loading |-> FALSE,
                    insightsProgress |->
                      [phase |-> "done", totalQueries |-> 0,
                       completedQueries |-> 0]]
              ELSE [content |-> run.outcome.message, loading |-> FALSE,
                    insightsProgress |-> Undefined])
         /\ isLoading' = FALSE
         /\ ops' = Advance(k, "done",
                           [progressInterval |-> FALSE])

\* the awaits of the run started by handleGetInsights settle
RunPlanSettles ==
  /\ \E r \in DOMAIN runs :
       /\ runs[r].pc = "awaitPlan"
       /\ \E res \in FewPlanResponses :
            Resume(r, PlanSettlesWith(runs[r], res))
  /\ AfterRunInsights
  /\ UNCHANGED <<rendered, ignored, budget, callVars, homeVars>>

RunQuerySettles ==
  /\ \E r \in DOMAIN runs :
       /\ runs[r].pc = "awaitQuery"
       /\ \E out \in {Table(1)} : Resume(r, QuerySettlesWith(runs[r], out))
  /\ AfterRunInsights
  /\ UNCHANGED <<rendered, ignored, budget, callVars, homeVars>>

RunSynthSettles ==
  /\ \E r \in DOMAIN runs :
       /\ runs[r].pc = "awaitSynth"
       /\ \E res \in FewSynthResponses :
            Resume(r, SynthSettlesWith(runs[r], res))
  /\ AfterRunInsights
  /\ UNCHANGED <<rendered, ignored, budget, callVars, homeVars>>

\* the component renders with the state as it is now
Render ==
  /\ rendered # RenderOf(isLoading, messages, progress)
  /\ rendered' = RenderOf(isLoading, messages, progress)
  /\ UNCHANGED <<messages, isLoading, ops, ignored, runVars, callVars,
                 homeVars>>

NextContainer ==
  \/ HandleSend \/ ChatSettles \/ SendQuerySettles \/ ChartSettles
  \/ HandleGetInsights \/ UpdateProgress
  \/ RunPlanSettles \/ RunQuerySettles \/ RunSynthSettles
  \/ Render

ContainerSpec == InitPage /\ [][NextContainer]_vars

\* every awaited call settles: the remote calls and the queries of both
\* handlers
LiveContainerSpec ==
  /\ InitPage /\ [][NextContainer]_vars
  /\ WF_vars(ChatSettles \/ SendQuerySettles \/ ChartSettles
             \/ RunPlanSettles \/ RunQuerySettles \/ RunSynthSettles)

\* ------------------------------------------------------------------------
\* app/page.tsx (Home), components/upload/sample-dataset-button.tsx and
\* lib/duckdb.ts.  A call of handleFileSelect or handleReset is an entry of
\* selects or resets; its pc names the await it is suspended at, through
\* the library functions it calls.  The two awaits of lines 20-22 of
\* duckdb.ts are one step (selectBundle), and so are the two of lines 36-39
\* (register): nothing is read or written between them.
\* ------------------------------------------------------------------------
MaxCalls == 3
MaxFetches == 2

\* what an awaited call of the engine or of extractSchema settles with
Settlements == {[ok |-> TRUE], ThrownError("engine failure")}

\* [database |-> k] is the object made by new mod.AsyncDuckDB(...) in call
\* k, [connection |-> k] a connection of it

NotInitialized == ThrownError("DuckDB not initialized")
NullRead(name) ==
  ThrownError("Cannot read properties of null (reading '" \o name \o "')")

\* call k of handleFileSelect moves to pc p with the fields of upd; the
\* locals of extractSchema end with the call
SelectTo(sels, k, p, upd) ==
  LET rec == [pc |-> p] @@ upd @@ sels[k]
      keep == IF p = "done" THEN DOMAIN rec \ {"columns", "sampleRows"}
              ELSE DOMAIN rec IN
  selects' = [sels EXCEPT ![k] = [f \in keep |-> rec[f]]]

\* the catch of lines 158-163
SelectFails(sels, k, h, e) ==
  /\ home' = [h EXCEPT !.error = IF e.isError THEN e.message
                                 ELSE "Failed to load dataset",
                       !.state = "error"]
  /\ SelectTo(sels, k, "done", <<>>)

\* initDB has resolved while conn = c and db = d; loadCSV is called:
\* duckdb.ts lines 31-34
EnterLoadCSV(sels, k, h, d, c) ==
  LET seen == [initDB |-> [conn |-> c, db |-> d]] IN
  IF d = Null \/ c = Null
  THEN /\ home' = [h EXCEPT !.error = NotInitialized.message,
                            !.state = "error"]
       /\ SelectTo(sels, k, "done", seen)
  ELSE /\ home' = h
       /\ SelectTo(sels, k, "drop", seen)

\* handleFileSelect(file) up to its first await: page lines 147-153,
\* duckdb.ts lines 17-20
BeginSelect(file) ==
  LET h == [home EXCEPT !.fileName = file, !.state = "loading",
                        !.error = ""]
      sels == Append(selects, [pc |-> "called", file |-> file])
      k == Len(sels) IN
  /\ Len(selects) + Len(resets) < MaxCalls
  /\ IF db # Null
     THEN EnterLoadCSV(sels, k, h, db, conn)
     ELSE /\ home' = h
          /\ SelectTo(sels, k, "selectBundle", <<>>)
  /\ UNCHANGED <<db, conn>>

\* a file is dropped on the FileDropzone, shown while state is upload; the
\* SampleDatasetButton is unmounted with the upload view
HandleFileSelect ==
  /\ home.state = "upload"
  /\ \E file \in {"data.csv"} : BeginSelect(file)
  /\ sample' = [sample EXCEPT !.loading = FALSE]
  /\ UNCHANGED <<resets, runVars, callVars, chatVars>>

\* SampleDatasetButton, shown while state is upload: handleClick up to the
\* await of fetch, lines 16-20.  loading is the state of the mounted
\* button (line 14); a button mounted anew starts with loading false
\* whatever fetches of earlier buttons are pending
SampleClick ==
  /\ home.state = "upload"
  /\ ~sample.loading
  /\ sample.pending < MaxFetches
  /\ sample' = [loading |-> TRUE, pending |-> sample.pending + 1]
  /\ UNCHANGED <<home, selects, resets, db, conn, runVars, callVars,
                 chatVars>>

\* a fetch of the sample settles, the one of the mounted button (own) or
\* one of a button that is gone: lines 20-28 of the button.  When it
\* resolves handleFileSelect is called, whatever the state of the page,
\* and the upload view is left; line 27 acts on the button of the fetch
SampleSettles ==
  /\ \E own, ok \in BOOLEAN :
       /\ sample.pending > (IF own = sample.loading THEN 0 ELSE 1)
       /\ own => sample.loading
       /\ IF ok
          THEN /\ BeginSelect("sample_dataset.csv")
               /\ sample' = [loading |-> FALSE,
                             pending |-> sample.pending - 1]
          ELSE /\ sample' = [loading |-> sample.loading /\ ~own,
                             pending |-> sample.pending - 1]
               /\ UNCHANGED <<home, selects, db, conn>>
  /\ UNCHANGED <<resets, runVars, callVars, chatVars>>

\* executeQuery(sql) is called by extractSchema in call k, which goes on
\* at pc p with the fields of upd: duckdb.ts lines 45-48
EnterExecuteQuery(k, p, upd) ==
  /\ IF conn = Null
     THEN SelectFails(selects, k, home, NotInitialized)
     ELSE SelectTo(selects, k, p, upd) /\ UNCHANGED home
  /\ UNCHANGED <<db, conn>>

\* a query of extractSchema in call k resolves with the rows that
\* executeQuery returns: lib/schema.ts, getRowCount of duckdb.ts lines
\* 67-72.  The rows are those of DESCRIBE, of SELECT * ... LIMIT 5 and of
\* COUNT(*), whose count is a number after line 58 of duckdb.ts
ExtractSchemaSettles(k) ==
  LET call == selects[k]
      DescribeRows ==
        {<<[column_name |-> Str("id"), column_type |-> Str("INTEGER")]>>,
         <<[column_name |-> Str("id"), column_type |-> Str("INTEGER")],
           [column_name |-> Str("name"), column_type |-> Str("VARCHAR")]>>}
      SampleRows == {<<>>, <<[id |-> Num(1)]>>}
      CountRows == {<<[cnt |-> Num(0)]>>, <<[cnt |-> Num(3)]>>} IN
  CASE call.pc = "describe" ->
         \E rows \in DescribeRows :
           EnterExecuteQuery(k, "select",
             [columns |-> [i \in DOMAIN rows |->
                            [name |-> ToStr(rows[i].column_name),
                             type |-> ToStr(rows[i].column_type)]]])
    [] call.pc = "select" ->
         \E rows \in SampleRows :
           EnterExecuteQuery(k, "count", [sampleRows |-> rows])
    [] call.pc = "count" ->
         \E rows \in CountRows :
           /\ home' = [home EXCEPT
                         !.schema =
                            [tableName |-> "uploaded_data",
                             columns |-> call.columns,
                             sampleRows |-> call.sampleRows,
                             rowCount |-> IF rows = <<>> THEN 0
                                          ELSE rows[1].cnt.n],
                         !.state = "ready"]
           /\ SelectTo(selects, k, "done", <<>>)
           /\ UNCHANGED <<db, conn>>

\* an await of call k of handleFileSelect settles with out
SelectSettles ==
  /\ \E k \in DOMAIN selects, out \in Settlements \cup {ThrownOther} :
       LET call == selects[k] IN
       /\ call.pc # "done"
       /\ out \in Settlements \/ call.pc \in {"describe", "select", "count"}
       /\ IF ~out.ok
          THEN SelectFails(selects, k, home, out) /\ UNCHANGED <<db, conn>>
          ELSE CASE call.pc = "selectBundle" ->
                      /\ db' = [database |-> k]
                      /\ SelectTo(selects, k, "instantiate", <<>>)
                      /\ UNCHANGED <<home, conn>>
                 [] call.pc = "instantiate" ->
                      /\ IF db = Null
                         THEN SelectFails(selects, k, home,
                                          NullRead("connect"))
                         ELSE /\ SelectTo(selects, k, "connect",
                                          [target |-> db])
                              /\ UNCHANGED home
                      /\ UNCHANGED <<db, conn>>
                 [] call.pc = "connect" ->
                      /\ conn' = [connection |-> call.target.database]
                      /\ EnterLoadCSV(selects, k, home, db, conn')
                      /\ UNCHANGED db
                 [] call.pc = "drop" ->
                      /\ IF db = Null
                         THEN SelectFails(selects, k, home,
                                          NullRead("registerFileBuffer"))
                         ELSE /\ SelectTo(selects, k, "register", <<>>)
                              /\ UNCHANGED home
                      /\ UNCHANGED <<db, conn>>
                 [] call.pc = "register" ->
                      /\ IF conn = Null
                         THEN SelectFails(selects, k, home, NullRead("query"))
                         ELSE /\ SelectTo(selects, k, "create", <<>>)
                              /\ UNCHANGED home
                      /\ UNCHANGED <<db, conn>>
                 [] call.pc = "create" ->
                      EnterExecuteQuery(k, "describe", <<>>)
                 [] OTHER -> ExtractSchemaSettles(k)
  /\ sample' = [sample EXCEPT !.loading = @ /\ home'.state = "upload"]
  /\ UNCHANGED <<resets, runVars, callVars, chatVars>>

\* handleReset after close() has settled as how: page lines 169-175
ResetEnds(rs, k, how) ==
  /\ home' = AtUpload
  /\ resets' = [rs EXCEPT ![k] = [pc |-> "done", close |-> how]]

\* close() at line 79, while db = d
EnterTerminate(rs, k, d) ==
  IF d # Null
  THEN /\ resets' = [rs EXCEPT ![k] = [pc |-> "terminate"]]
       /\ UNCHANGED home
  ELSE ResetEnds(rs, k, "resolved")

\* handleReset() up to its first await; its buttons are shown while state
\* is ready or error: page lines 166-168, 181, 254, duckdb.ts lines 74-80
HandleReset ==
  /\ home.state \in {"ready", "error"}
  /\ Len(selects) + Len(resets) < MaxCalls
  /\ LET rs == Append(resets, [pc |-> "called"])
         k == Len(rs) IN
     IF conn # Null
     THEN /\ resets' = [rs EXCEPT ![k] = [pc |-> "connClose"]]
          /\ UNCHANGED home
     ELSE EnterTerminate(rs, k, db)
  /\ UNCHANGED <<db, conn, selects, sample, runVars, callVars, chatVars>>

\* an await of call k of handleReset settles with out: duckdb.ts lines
\* 76-82, page lines 169-175
ResetSettles ==
  /\ \E k \in DOMAIN resets, out \in Settlements :
       /\ resets[k].pc # "done"
       /\ IF ~out.ok
          THEN ResetEnds(resets, k, "rejected") /\ UNCHANGED <<db, conn>>
          ELSE IF resets[k].pc = "connClose"
          THEN /\ conn' = Null
               /\ EnterTerminate(resets, k, db)
               /\ UNCHANGED db
          ELSE /\ db' = Null
               /\ ResetEnds(resets, k, "resolved")
               /\ UNCHANGED conn
  /\ UNCHANGED <<selects, sample, runVars, callVars, chatVars>>

NextPage ==
  \/ HandleFileSelect \/ SampleClick \/ SampleSettles \/ SelectSettles
  \/ HandleReset \/ ResetSettles

PageSpec == InitPage /\ [][NextPage]_vars

\* ------------------------------------------------------------------------
\* Properties
\* ------------------------------------------------------------------------
Has(r, name) == name \in DOMAIN r

SqlOf(queries) == [j \in 1..Len(queries) |-> queries[j].sql]

\* the promise of the run has settled
HasSettled(run) == run.pc \in {"resolved", "rejected"}

\* the argument of the last setProgress call of a run
Shown(run) == run.snapshots[Len(run.snapshots)]

\* progress holds what the last setProgress call was given: the last
\* snapshot of the only run, or of one of the runs when calls overlap
ProgressIsLastSet ==
  /\ runs = <<>> => progress = InitialProgress
  /\ Len(runs) = 1 => progress = Shown(runs[1])
  /\ runs # <<>> => \E r \in DOMAIN runs : progress = Shown(runs[r])

\* C1: with a plan of n >= 1 items, failing queries never reject the run:
\* the items are executed once each in plan order, and once all n have
\* settled the run is in the synthesizing phase with n entries in
\* planWithResults, in plan order; a rejection can only come from synthesis.
C1_QueryFailuresNeverAbort ==
  \A r \in DOMAIN runs :
    LET run == runs[r] IN
    /\ run.pc = "awaitQuery" =>
         /\ run.issued = SubSeq(SqlOf(QueriesOf(run)), 1, run.i + 1)
         /\ Len(run.planWithResults) = run.i
         /\ run.outcome = Pending
    /\ (Len(QueriesOf(run)) >= 1
          /\ Len(run.engineLog) = Len(QueriesOf(run))) =>
         /\ run.pc \in {"awaitSynth", "resolved", "rejected"}
         /\ run.synthReply # None
         /\ run.issued = SqlOf(QueriesOf(run))
         /\ Len(run.planWithResults) = Len(QueriesOf(run))
         /\ \A j \in 1..Len(QueriesOf(run)) :
              /\ run.planWithResults[j].id = QueriesOf(run)[j].id
              /\ run.planWithResults[j].sql = QueriesOf(run)[j].sql
         /\ \E k \in 1..Len(run.snapshots) :
              run.snapshots[k].phase = "synthesizing"
    /\ (Len(QueriesOf(run)) >= 1 /\ run.pc = "rejected") =>
         /\ Len(run.engineLog) = Len(QueriesOf(run))
         /\ run.synthReply.st = "err"
         /\ run.outcome = Err(run.synthReply.message)

C1_Witness ==
  \E r \in DOMAIN runs :
    LET run == runs[r] IN
    /\ run.pc = "awaitSynth"
    /\ progress.phase = "synthesizing"
    /\ Len(QueriesOf(run)) >= 2
    /\ Len(run.planWithResults) = Len(QueriesOf(run))
    /\ \A j \in 1..Len(run.engineLog) : ~run.engineLog[j].ok

\* C2: every item pushed to planWithResults has exactly one of result and
\* error: result exactly when its executeQuery call succeeded, error exactly
\* when it failed.
C2_ExactlyOneOfResultAndError ==
  \A r \in DOMAIN runs :
    LET run == runs[r] IN
    \A j \in 1..Len(run.planWithResults) :
      /\ Has(run.planWithResults[j], "result")
           # Has(run.planWithResults[j], "error")
      /\ Has(run.planWithResults[j], "result") <=> run.engineLog[j].ok
      /\ Has(run.planWithResults[j], "error") <=> ~run.engineLog[j].ok

C2_Witness ==
  \E r \in DOMAIN runs :
    LET run == runs[r] IN
    /\ Len(run.planWithResults) >= 2
    /\ \E j, k \in 1..Len(run.planWithResults) :
         /\ Has(run.planWithResults[j], "result") /\ run.engineLog[j].ok
         /\ Has(run.planWithResults[k], "error")
         /\ run.engineLog[k] = ThrownOther

\* C3 (as claimed): a validated plan with zero queries rejects the run with
\* the empty-plan error, executes no query, makes no synthesis request, and
\* leaves the progress phase at `error`.
C3_EmptyPlanEndsInError ==
  \A r \in DOMAIN runs :
    LET run == runs[r] IN
    (run.pc = "rejected" /\ run.planReply.st = "ok"
       /\ Len(QueriesOf(run)) = 0) =>
      /\ run.outcome = Err(EmptyPlanMessage)
      /\ run.issued = <<>>
      /\ run.synthReply = None
      /\ Shown(run).phase = "error"

\* C4 (as claimed): a failed plan or synthesis request rejects the run with
\* that failure's message and moves the progress phase to `error`; after a
\* plan failure no query is executed, after a synthesis failure the run never
\* reaches `done`.
C4_RemoteFailureEndsInError ==
  \A r \in DOMAIN runs :
    LET run == runs[r] IN
    /\ (run.pc = "rejected" /\ run.planReply.st = "err") =>
         /\ run.outcome = Err(run.planReply.message)
         /\ run.issued = <<>>
         /\ Shown(run).phase = "error"
    /\ (run.pc = "rejected" /\ run.synthReply.st = "err") =>
         /\ run.outcome = Err(run.synthReply.message)
         /\ \A k \in 1..Len(run.snapshots) : run.snapshots[k].phase # "done"
         /\ Shown(run).phase = "error"

\* C5: every progress snapshot set during a run has
\* completedQueries <= totalQueries, and along the snapshots of one run
\* completedQueries never decreases.
C5_CompletedBoundedAndMonotone ==
  /\ progress.completedQueries <= progress.totalQueries
  /\ ProgressIsLastSet
  /\ \A r \in DOMAIN runs :
       LET run == runs[r] IN
       /\ \A k \in 1..Len(run.snapshots) :
            run.snapshots[k].completedQueries <= run.snapshots[k].totalQueries
       /\ \A k \in 1..(Len(run.snapshots) - 1) :
            run.snapshots[k].completedQueries
              <= run.snapshots[k + 1].completedQueries

C5_Witness ==
  \E r \in DOMAIN runs :
    LET run == runs[r] IN
    /\ run.pc = "resolved"
    /\ Len(QueriesOf(run)) >= 3
    /\ Len(run.snapshots) = Len(QueriesOf(run)) + 4
    /\ run.snapshots[Len(run.snapshots) - 2].completedQueries
         = Len(QueriesOf(run)) - 1
    /\ progress.completedQueries = Len(QueriesOf(run))

\* the snapshots of a run whose phase is `executing`
Executing(run) == SelectSeq(run.snapshots, LAMBDA p : p.phase = "executing")

\* the positions of the snapshots that enter `synthesizing`
SynthesizingAt(run) ==
  {k \in 1..Len(run.snapshots) : run.snapshots[k].phase = "synthesizing"}

\* C6 (as claimed): the completedQueries values observed while the phase is
\* `executing` are non-decreasing and end at N, the number of plan items,
\* before the phase changes to `synthesizing`.
C6_ExecutingEndsAtN ==
  \A r \in DOMAIN runs :
    LET run == runs[r] IN
    \A k \in SynthesizingAt(run) :
      /\ k > 1
      /\ run.snapshots[k - 1].phase = "executing"
      /\ run.snapshots[k - 1].completedQueries = Len(QueriesOf(run))
      /\ \A m \in 1..(Len(Executing(run)) - 1) :
           Executing(run)[m].completedQueries
             <= Executing(run)[m + 1].completedQueries

\* C6 (amended): the completedQueries values observed while the phase is
\* `executing` are 0, 0, 1, ..., N-1: non-decreasing and ending at N-1; the
\* value N first appears in the snapshot that changes the phase to
\* `synthesizing`.
C6_ExecutingEndsAtNMinusOne ==
  \A r \in DOMAIN runs :
    LET run == runs[r] IN
    /\ \A m \in 1..Len(Executing(run)) :
         /\ Executing(run)[m].completedQueries = (IF m = 1 THEN 0 ELSE m - 2)
         /\ Executing(run)[m].totalQueries = Len(QueriesOf(run))
         /\ Executing(run)[m].completedQueries < Len(QueriesOf(run))
    /\ \A k \in SynthesizingAt(run) :
         /\ k > 1
         /\ run.snapshots[k - 1].phase = "executing"
         /\ run.snapshots[k - 1].completedQueries = Len(QueriesOf(run)) - 1
         /\ run.snapshots[k].completedQueries = Len(QueriesOf(run))
         /\ Len(Executing(run)) = Len(QueriesOf(run)) + 1

C6_Witness ==
  \E r \in DOMAIN runs :
    LET run == runs[r] IN
    /\ progress.phase = "synthesizing"
    /\ Len(QueriesOf(run)) = 3
    /\ [m \in 1..Len(Executing(run)) |-> Executing(run)[m].completedQueries]
         = <<0, 0, 1, 2>>

PhaseRank(ph) ==
  CASE ph = "planning" -> 1
    [] ph = "executing" -> 2
    [] ph = "synthesizing" -> 3
    [] ph = "done" -> 4
    [] OTHER -> 0

\* the phases of a sequence of snapshots, repetitions collapsed
RECURSIVE Visited(_)
Visited(snaps) ==
  IF snaps = <<>> THEN <<>>
  ELSE IF Len(snaps) >= 2 /\ snaps[1].phase = snaps[2].phase
  THEN Visited(Tail(snaps))
  ELSE <<snaps[1].phase>> \o Visited(Tail(snaps))

\* C7: the phase is `done` before any run starts; a run that resolves has
\* visited planning, executing, synthesizing, done in exactly that order; no
\* run moves back to an earlier phase or enters `error`.
C7_PhaseOrder ==
  /\ runs = <<>> => progress = InitialProgress /\ progress.phase = "done"
  /\ Len(runs) = 1 => progress = Shown(runs[1])
  /\ \A r \in DOMAIN runs :
       LET run == runs[r] IN
       /\ \A k \in 1..Len(run.snapshots) : run.snapshots[k].phase # "error"
       /\ \A k \in 1..(Len(run.snapshots) - 1) :
            PhaseRank(run.snapshots[k].phase)
              <= PhaseRank(run.snapshots[k + 1].phase)
       /\ run.pc = "resolved" =>
            /\ Visited(run.snapshots)
                 = <<"planning", "executing", "synthesizing", "done">>
            /\ Shown(run).phase = "done"

C7_Witness ==
  \E r \in DOMAIN runs :
    LET run == runs[r] IN
    /\ run.pc = "resolved"
    /\ Len(QueriesOf(run)) >= 2
    /\ Len(run.snapshots) = Len(QueriesOf(run)) + 4
    /\ progress.phase = "done"

\* C8: within one run at most one executeQuery call is in flight; the query
\* of item i+1 is issued only once the query of item i has settled; no query
\* is issued before the plan request has resolved or after the synthesis
\* request has been issued.
C8_OneQueryInFlight ==
  \A r \in DOMAIN runs :
    LET run == runs[r] IN
    /\ Cardinality(run.inflight) <= 1
    /\ Len(run.issued) <= Len(run.engineLog) + 1
    /\ run.inflight # {} =>
         /\ run.pc = "awaitQuery"
         /\ run.inflight = {Len(run.engineLog)}
         /\ Len(run.issued) = Len(run.engineLog) + 1
    /\ run.planReply.st # "ok" => run.issued = <<>> /\ run.inflight = {}
    /\ run.synthReply # None =>
         /\ run.inflight = {}
         /\ Len(run.issued) = Len(run.engineLog)
         /\ run.issued = SqlOf(QueriesOf(run))

C8_Witness ==
  /\ Len(runs) = 2
  /\ runs[1].pc = "awaitQuery"
  /\ runs[1].inflight = {1}
  /\ Len(runs[1].engineLog) = 1
  /\ Len(runs[1].issued) = 2
  /\ Len(QueriesOf(runs[1])) = 2
  /\ runs[2].pc = "awaitQuery"
  /\ runs[2].inflight = {0}
  /\ progress = Shown(runs[2])
  /\ progress # Shown(runs[1])

\* C9: whenever the phase a run has set is `synthesizing`, or `done` after
\* the run, completedQueries = totalQueries = the number of plan items, and
\* the synthesis request was issued with one settled entry per plan item.
C9_SynthesizingAfterAllSettled ==
  /\ Len(runs) = 1 => progress = Shown(runs[1])
  /\ \A r \in DOMAIN runs :
       LET run == runs[r] IN
       /\ Shown(run).phase \in {"synthesizing", "done"} =>
            /\ Shown(run).completedQueries = Len(QueriesOf(run))
            /\ Shown(run).totalQueries = Len(QueriesOf(run))
            /\ Len(run.planWithResults) = Len(QueriesOf(run))
            /\ Len(run.engineLog) = Len(QueriesOf(run))
            /\ run.inflight = {}
            /\ \A j \in 1..Len(run.planWithResults) :
                 \/ Has(run.planWithResults[j], "result")
                 \/ Has(run.planWithResults[j], "error")
       /\ run.synthReply # None =>
            /\ Shown(run).phase \in {"synthesizing", "done"}
            /\ Len(run.planWithResults) = Len(QueriesOf(run))
            /\ Len(run.synthPayload) = Len(QueriesOf(run))
            /\ \A j \in 1..Len(run.synthPayload) :
                 /\ run.synthPayload[j].id = QueriesOf(run)[j].id
                 /\ \/ Has(run.synthPayload[j], "result")
                    \/ Has(run.synthPayload[j], "error")

C9_Witness ==
  \E r \in DOMAIN runs :
    LET run == runs[r] IN
    /\ run.pc = "resolved"
    /\ progress
         = [phase |-> "done", totalQueries |-> 2, completedQueries |-> 2]
    /\ Len(run.synthPayload) = 2
    /\ Has(run.planWithResults[1], "error")
    /\ Has(run.planWithResults[2], "result")

\* the positions of the entries of planWithResults whose sql equals sql
Matches(run, sql) ==
  {j \in 1..Len(run.planWithResults) : run.planWithResults[j].sql = sql}

Least(S) == CHOOSE j \in S : \A m \in S : j <= m

\* C10: in a resolved run the insights are those of the synthesis response,
\* in number and order; each one's queryResult is the result of the first
\* entry of planWithResults with exactly its sql, and is unset when no entry
\* matches or when that first entry failed.
C10_BackFillFirstMatch ==
  \A r \in DOMAIN runs :
    LET run == runs[r] IN
    run.pc = "resolved" =>
      LET ins == run.outcome.value.insights
          resp == run.synthReply.value.insights IN
      /\ run.outcome.value.summary = run.synthReply.value.summary
      /\ Len(ins) = Len(resp)
      /\ \A k \in 1..Len(ins) :
           /\ DOMAIN ins[k] \ {"queryResult"} = DOMAIN resp[k]
           /\ \A f \in DOMAIN resp[k] : ins[k][f] = resp[k][f]
           /\ IF Matches(run, ins[k].sql) = {}
              THEN ~Has(ins[k], "queryResult")
              ELSE LET first ==
                         run.planWithResults[Least(Matches(run, ins[k].sql))]
                   IN
                   IF Has(first, "result")
                   THEN Has(ins[k], "queryResult")
                          /\ ins[k].queryResult = first.result
                   ELSE ~Has(ins[k], "queryResult")

C10_Witness ==
  \E r \in DOMAIN runs :
    LET run == runs[r]
        ins == run.outcome.value.insights IN
    /\ run.pc = "resolved"
    /\ \E k \in 1..Len(ins) :
         \E j1, j2 \in Matches(run, ins[k].sql) :
           /\ j1 = Least(Matches(run, ins[k].sql))
           /\ j1 < j2
           /\ Has(run.planWithResults[j1], "error")
           /\ Has(run.planWithResults[j2], "result")
           /\ ~Has(ins[k], "queryResult")
    /\ \E k \in 1..Len(ins) :
         /\ Has(ins[k], "queryResult")
         /\ Len(ins[k].queryResult.rows) >= 1

\* C11: in the synthesis request payload every result has at most 20 rows,
\* which are the first rows, in order, of the item's local result (all of
\* them when there are at most 20); an item without a result is sent
\* without one.
C11_PayloadRowsCapped ==
  vfn = "synthesizeInsights" =>
    /\ Len(vout) = Len(vin)
    /\ \A j \in 1..Len(vin) :
         IF Has(vin[j], "result")
         THEN /\ Has(vout[j], "result")
              /\ vout[j].result.columns = vin[j].result.columns
              /\ Len(vout[j].result.rows) <= 20
              /\ Len(vout[j].result.rows) <= Len(vin[j].result.rows)
              /\ Len(vin[j].result.rows) <= 20 =>
                   Len(vout[j].result.rows) = Len(vin[j].result.rows)
              /\ \A r \in 1..Len(vout[j].result.rows) :
                   vout[j].result.rows[r] = vin[j].result.rows[r]
         ELSE ~Has(vout[j], "result")

C11_Witness ==
  /\ vfn = "synthesizeInsights"
  /\ Len(vin) = 2
  /\ Has(vin[1], "result")
  /\ Len(vin[1].result.rows) = 22
  /\ Len(vout[1].result.rows) = 20
  /\ vout[1].result.rows[20] = vin[1].result.rows[20]
  /\ ~Has(vin[2], "result")
  /\ ~Has(vout[2], "result")

\* C12: synthesizeInsights leaves planWithResults as it was: once the request
\* has been issued every local result still has all the rows the engine
\* returned (so a back-filled queryResult may hold more than 20 rows), and
\* id, title, sql, rationale and error of each item are sent as held locally.
C12_SynthesisLeavesLocalResults ==
  \A r \in DOMAIN runs :
    LET run == runs[r] IN
    run.synthReply # None =>
      /\ Len(run.synthPayload) = Len(run.planWithResults)
      /\ \A j \in 1..Len(run.planWithResults) :
           /\ Has(run.planWithResults[j], "result") =>
                /\ Len(run.planWithResults[j].result.rows)
                     = run.engineLog[j].numRows
                /\ run.planWithResults[j].result.columns
                     = run.engineLog[j].fields
           /\ \A f \in {"id", "title", "sql", "rationale", "error"} :
                /\ Has(run.synthPayload[j], f)
                     <=> Has(run.planWithResults[j], f)
                /\ Has(run.planWithResults[j], f) =>
                     run.synthPayload[j][f] = run.planWithResults[j][f]
      /\ run.pc = "resolved" =>
           \A k \in 1..Len(run.outcome.value.insights) :
             Has(run.outcome.value.insights[k], "queryResult") =>
               \E j \in 1..Len(run.planWithResults) :
                 /\ run.engineLog[j].ok
                 /\ run.outcome.value.insights[k].sql
                      = run.planWithResults[j].sql
                 /\ Len(run.outcome.value.insights[k].queryResult.rows)
                      = run.engineLog[j].numRows

C12_Witness ==
  \E r \in DOMAIN runs :
    LET run == runs[r] IN
    /\ run.pc = "resolved"
    /\ Len(run.planWithResults) = 2
    /\ Has(run.planWithResults[1], "error")
    /\ run.synthPayload[1].error = "syntax error"
    /\ Has(run.planWithResults[2], "result")
    /\ Len(run.planWithResults[2].result.rows) = 21
    /\ Len(run.synthPayload[2].result.rows) = 20
    /\ \E k \in 1..Len(run.outcome.value.insights) :
         /\ Has(run.outcome.value.insights[k], "queryResult")
         /\ Len(run.outcome.value.insights[k].queryResult.rows) = 21

\* a run as it should be, pending or settled: resolved with a summary and a
\* list of insights, or rejected with the message of the one step that
\* failed
SettledProperly(run) ==
  /\ run.pc \in {"awaitPlan", "awaitQuery", "awaitSynth"}
       <=> run.outcome = Pending
  /\ run.pc = "resolved" <=> run.outcome.st = "ok"
  /\ run.pc = "rejected" <=> run.outcome.st = "err"
  /\ run.pc = "resolved" =>
       /\ run.synthReply.st = "ok"
       /\ DOMAIN run.outcome.value = {"summary", "insights"}
       /\ Len(run.outcome.value.insights)
            = Len(run.synthReply.value.insights)
  /\ run.pc = "rejected" =>
       \/ /\ run.planReply.st = "err"
          /\ run.outcome.message = run.planReply.message
       \/ /\ run.planReply.st = "ok" /\ run.planReply.value.queries = <<>>
          /\ run.outcome.message = EmptyPlanMessage
       \/ /\ run.planReply.st = "ok" /\ run.planReply.value.queries # <<>>
          /\ run.synthReply.st = "err"
          /\ run.outcome.message = run.synthReply.message

\* an element of the raw `queries` array that is an object with string
\* `title` and string `sql`
WellFormedQuery(q) ==
  /\ q.k = "object"
  /\ "title" \in DOMAIN q.f /\ q.f.title.k = "string"
  /\ "sql" \in DOMAIN q.f /\ q.f.sql.k = "string"

\* a plan response whose body is an object with a `queries` array of which
\* some element is dropped
HasDroppedEntry(res) ==
  /\ res.net = "response" /\ res.ok /\ res.body.json
  /\ res.body.value.k = "object"
  /\ "queries" \in DOMAIN res.body.value.f
  /\ res.body.value.f.queries.k = "array"
  /\ \E j \in DOMAIN res.body.value.f.queries.a :
       ~WellFormedQuery(res.body.value.f.queries.a[j])

\* the runs that are runs before and after a step (a call made when every
\* run has settled lets the settled runs go)
Kept == {r \in DOMAIN runs : r \in DOMAIN runs' /\ Len(runs') >= Len(runs)}

\* C13 as stated: no run rejects on a plan response that had dropped entries.
\* Refuted: a response whose entries are all dropped leaves an empty plan, and
\* the run rejects with the empty-plan error.
C13_DroppedEntriesNeverReject ==
  [][\A r \in Kept :
       (runs[r].pc = "awaitPlan" /\ runs'[r].pc = "rejected") =>
         \A res \in PlanResponses :
           runs'[r].planReply = requestAnalysisPlan(res) =>
             ~HasDroppedEntry(res)]_vars

\* C13 (amended): when every awaited call settles, every run of runInsights
\* settles, and only once: it resolves with {summary, insights} or rejects
\* with one error, which is the failure of the plan request, the plan left
\* empty (also when dropping malformed entries is what emptied it) or the
\* failure of the synthesis request; a failed query, a dropped insight or
\* chart, and a dropped plan entry beside an accepted one never reject.
C13_RunSettlesOnce ==
  /\ [](\A r \in DOMAIN runs : SettledProperly(runs[r]))
  /\ [][\A r \in DOMAIN runs :
          HasSettled(runs[r]) =>
            \/ r \in DOMAIN runs' /\ runs'[r] = runs[r]
            \/ runs' = <<NewRun>>]_vars
  /\ []<>(\A r \in DOMAIN runs : HasSettled(runs[r]))

C13_Witness ==
  \E r \in DOMAIN runs :
    LET run == runs[r] IN
    /\ run.pc = "resolved"
    /\ Len(QueriesOf(run)) = 2
    /\ QueriesOf(run)[1].id = "q2"
    /\ ~run.engineLog[1].ok
    /\ ~run.engineLog[2].ok
    /\ run.outcome.value.summary = "Analysis complete."
    /\ Len(run.outcome.value.insights) = 1

\* the input of a validator is an object whose `queries` is an array
PlanShaped ==
  /\ vin.k = "object"
  /\ "queries" \in DOMAIN vin.f
  /\ vin.f.queries.k = "array"

RawQ == vin.f.queries.a

\* the positions of the raw array holding an object with string title and sql
WellFormedAt == {j \in DOMAIN RawQ : WellFormedQuery(RawQ[j])}

\* the position of the k-th such element
KthWellFormed(k) ==
  CHOOSE j \in WellFormedAt : Cardinality({m \in WellFormedAt : m <= j}) = k

PlanValidated == vfn = "validatePlanResponse" /\ PlanShaped

\* C14: for an object whose `queries` is an array, validatePlanResponse
\* returns normally a list with one item per element that is an object with
\* string title and string sql, in the order of the raw array; the other
\* elements are dropped.
C14_KeepsWellFormedInOrder ==
  PlanValidated =>
    /\ vout.st = "ok"
    /\ Len(vout.value.queries) = Cardinality(WellFormedAt)
    /\ \A k \in 1..Cardinality(WellFormedAt) :
         /\ vout.value.queries[k].title = RawQ[KthWellFormed(k)].f.title.s
         /\ vout.value.queries[k].sql = RawQ[KthWellFormed(k)].f.sql.s

C14_Witness ==
  /\ PlanValidated
  /\ Len(RawQ) = 3
  /\ WellFormedAt = {1, 3}
  /\ vout.st = "ok"
  /\ Len(vout.value.queries) = 2
  /\ vout.value.queries[1].sql # vout.value.queries[2].sql

\* C15: the ids of the items validatePlanResponse returns are pairwise
\* distinct.  Refuted: an id supplied by an element is kept as it is, so it
\* can repeat, and it can equal the synthetic id "q<idx+1>" of another element.
C15_IdsPairwiseDistinct ==
  (vfn = "validatePlanResponse" /\ vout.st = "ok") =>
    \A a, b \in DOMAIN vout.value.queries :
      a # b => vout.value.queries[a].id # vout.value.queries[b].id

\* the decimal numerals of the numbers that occur as ids and positions
Numeral(n) ==
  CASE n = 0 -> "0" [] n = 1 -> "1" [] n = 2 -> "2" [] n = 3 -> "3"
    [] n = 4 -> "4" [] n = 5 -> "5" [] n = 6 -> "6" [] n = 7 -> "7"
    [] n = 8 -> "8" [] n = 9 -> "9" [] n = 12 -> "12"

\* the id the claim gives to the element at 1-based position j of the raw
\* array
ExpectedId(j) ==
  LET e == RawQ[j].f IN
  IF "id" \in DOMAIN e /\ e.id.k = "string" /\ e.id.s # "" THEN e.id.s
  ELSE IF "id" \in DOMAIN e /\ e.id.k = "number" THEN Numeral(e.id.n)
  ELSE "q" \o Numeral(j)

\* C16: the accepted element at 0-based position idx of the raw array gets
\* its own id when that is a non-empty string, its decimal string when it is
\* a number, and otherwise "q" followed by idx+1, where idx counts the dropped
\* elements too; a single accepted element without id gets "q1".
C16_IdRule ==
  /\ PlanValidated =>
       \A k \in 1..Cardinality(WellFormedAt) :
         vout.value.queries[k].id = ExpectedId(KthWellFormed(k))
  /\ (/\ vfn = "validatePlanResponse"
      /\ vin = Obj([queries |-> Arr(<<Obj([title |-> Str("T"),
                                           sql |-> Str("SELECT A")])>>)])) =>
       /\ Len(vout.value.queries) = 1
       /\ vout.value.queries[1].id = "q1"

C16_Witness ==
  /\ PlanValidated
  /\ Len(RawQ) = 3
  /\ WellFormedAt = {2, 3}
  /\ "id" \in DOMAIN RawQ[2].f /\ RawQ[2].f.id = Num(12)
  /\ "id" \in DOMAIN RawQ[3].f /\ RawQ[3].f.id = Str("")
  /\ vout.value.queries[1].id = "12"
  /\ vout.value.queries[2].id = "q3"

\* C17: every item validatePlanResponse returns has a string rationale: the
\* element's rationale when that is a string, the empty string otherwise.
\* Refuted: a truthy rationale of another type (5, true, {}, []) is returned
\* as it is.
C17_RationaleIsString ==
  PlanValidated =>
    \A k \in 1..Cardinality(WellFormedAt) :
      LET e == RawQ[KthWellFormed(k)].f IN
      vout.value.queries[k].rationale =
        IF "rationale" \in DOMAIN e /\ e.rationale.k = "string"
        THEN e.rationale ELSE Str("")

\* C18: validatePlanResponse fails with the "expected an object" error for
\* every top-level value that is not an object (null, string, number,
\* boolean, array), with the "missing or invalid 'queries' array" error for
\* every object whose `queries` is absent or not an array, and returns
\* normally otherwise.  Refuted: a top-level array fails with the 'queries'
\* error.
C18_PlanStructuralErrors ==
  vfn = "validatePlanResponse" =>
    /\ vin.k # "object" =>
         vout = Err("Invalid plan response: expected an object")
    /\ (vin.k = "object" /\ ~PlanShaped) =>
         vout = Err("Invalid plan response: missing or invalid 'queries' array")
    /\ PlanShaped => vout.st = "ok"

\* C19: validateInsightsResponse fails with the "expected an object" error
\* for every top-level value that is not an object (null, string, number,
\* boolean, array) and returns no result for it.  Refuted: a top-level array
\* is validated as an object without summary and insights.
C19_InsightsRejectNonObjects ==
  (vfn = "validateInsightsResponse" /\ vin.k # "object") =>
    vout = Err("Invalid insights response: expected an object")

\* the raw insights of an object input: its `insights` when that is an array
RawI ==
  IF "insights" \in DOMAIN vin.f /\ vin.f.insights.k = "array"
  THEN vin.f.insights.a ELSE <<>>

\* the positions holding an object with string title and string finding
ValidInsightAt ==
  {j \in DOMAIN RawI :
     /\ RawI[j].k = "object"
     /\ "title" \in DOMAIN RawI[j].f /\ RawI[j].f.title.k = "string"
     /\ "finding" \in DOMAIN RawI[j].f /\ RawI[j].f.finding.k = "string"}

KthValidInsight(k) ==
  CHOOSE j \in ValidInsightAt :
    Cardinality({m \in ValidInsightAt : m <= j}) = k

SummaryDefaulted == ~("summary" \in DOMAIN vin.f /\ vin.f.summary.k = "string")

\* C20: for every object input validateInsightsResponse returns normally;
\* the summary is the input's summary when that is a string and
\* "Analysis complete." otherwise, and in both cases the insights are the
\* valid entries of the input, in order.
C20_SummaryDefaultKeepsInsights ==
  (vfn = "validateInsightsResponse" /\ vin.k = "object") =>
    /\ vout.st = "ok"
    /\ vout.value.summary =
         IF SummaryDefaulted THEN "Analysis complete." ELSE vin.f.summary.s
    /\ Len(vout.value.insights) = Cardinality(ValidInsightAt)
    /\ \A k \in 1..Cardinality(ValidInsightAt) :
         /\ vout.value.insights[k].title = RawI[KthValidInsight(k)].f.title.s
         /\ vout.value.insights[k].finding =
              RawI[KthValidInsight(k)].f.finding.s

C20_Witness ==
  /\ vfn = "validateInsightsResponse"
  /\ vin.k = "object"
  /\ "summary" \notin DOMAIN vin.f
  /\ Len(RawI) = 2
  /\ ValidInsightAt = {2}
  /\ vout.st = "ok"
  /\ vout.value.summary = "Analysis complete."
  /\ Len(vout.value.insights) = 1

InsightsValidated == vfn = "validateInsightsResponse" /\ vin.k = "object"

\* C21: validateInsightsResponse returns the entries of `insights` that are
\* objects with string title and string finding, in their order, whatever
\* invalid entries stand before them; each has the input's priority when
\* that is high, medium or low and `medium` otherwise, and the input's sql
\* when that is a string and "" otherwise.
C21_InsightEntries ==
  InsightsValidated =>
    /\ vout.st = "ok"
    /\ Len(vout.value.insights) = Cardinality(ValidInsightAt)
    /\ \A k \in 1..Cardinality(ValidInsightAt) :
         LET e == RawI[KthValidInsight(k)].f
             r == vout.value.insights[k] IN
         /\ r.title = e.title.s
         /\ r.finding = e.finding.s
         /\ r.priority \in {"high", "medium", "low"}
         /\ r.priority =
              IF /\ "priority" \in DOMAIN e
                 /\ e.priority \in {Str("high"), Str("medium"), Str("low")}
              THEN e.priority.s ELSE "medium"
         /\ r.sql = IF "sql" \in DOMAIN e /\ e.sql.k = "string"
                    THEN e.sql.s ELSE ""

C21_Witness ==
  /\ InsightsValidated
  /\ Len(RawI) = 2
  /\ ValidInsightAt = {2}
  /\ "priority" \in DOMAIN RawI[2].f /\ RawI[2].f.priority = Str("urgent")
  /\ Len(vout.value.insights) = 1
  /\ vout.value.insights[1].priority = "medium"
  /\ vout.value.insights[1].sql = ""

\* the field `name` of the raw chart, when the chart is an object having it
RawChartHas(name) == vin.k = "object" /\ name \in DOMAIN vin.f

RawChartString(name) == RawChartHas(name) /\ vin.f[name].k = "string"

ChartTypes == {"bar", "line", "pie", "area", "scatter"}

\* the string keys the raw chart offers: those of the objects of a `yKeys`
\* array, and a string `yKey`
RawChartKeys ==
  (IF RawChartHas("yKeys") /\ vin.f.yKeys.k = "array"
   THEN {vin.f.yKeys.a[j].f.key.s :
           j \in {m \in DOMAIN vin.f.yKeys.a :
                    /\ vin.f.yKeys.a[m].k = "object"
                    /\ "key" \in DOMAIN vin.f.yKeys.a[m].f
                    /\ vin.f.yKeys.a[m].f.key.k = "string"}}
   ELSE {})
  \cup (IF RawChartString("yKey") THEN {vin.f.yKey.s} ELSE {})

InsightChartValidated == vfn = "validateInsightsResponse" /\ vout.st = "ok"

\* C22: a chart on an insight returned by validateInsightsResponse has a
\* valid type, a string xKey and at least one yKeys entry, each with a
\* string key; an insight whose chart fails validation is returned without
\* chart, and validateInsightsResponse does not fail.
C22_InsightChartValid ==
  vfn = "validateInsightsResponse" =>
    /\ vout.st = "ok"
    /\ Len(vout.value.insights) = 1
    /\ vout.value.insights[1].title = "I"
    /\ vout.value.insights[1].finding = "F"
    /\ "chart" \in DOMAIN vout.value.insights[1] =>
         LET c == vout.value.insights[1].chart IN
         /\ RawChartString("type") /\ c.type = vin.f.type.s
         /\ c.type \in ChartTypes
         /\ RawChartString("xKey") /\ c.xKey = vin.f.xKey.s
         /\ Len(c.yKeys) >= 1
         /\ \A j \in DOMAIN c.yKeys : c.yKeys[j].key \in RawChartKeys
    /\ (\/ ~RawChartString("type")
        \/ ~RawChartString("xKey")
        \/ RawChartKeys = {}) =>
         "chart" \notin DOMAIN vout.value.insights[1]

C22_Witness ==
  /\ InsightChartValidated
  /\ RawChartString("type") /\ vin.f.type = Str("bar")
  /\ RawChartString("xKey")
  /\ RawChartHas("yKeys") /\ vin.f.yKeys = Arr(<<Str("sales")>>)
  /\ Len(vout.value.insights) = 1
  /\ "chart" \notin DOMAIN vout.value.insights[1]

\* C23: chart validation yields no chart for a chart whose title is not a
\* string, in validateChartSpec and inside validateInsightsResponse.
\* Refuted for validateInsightsResponse: it gives the chart the title of
\* the insight.
C23_NoChartWithoutStringTitle ==
  ~RawChartString("title") =>
    /\ vfn = "validateChartSpec" => vout = Ok(Null)
    /\ InsightChartValidated => "chart" \notin DOMAIN vout.value.insights[1]

\* a ChartSpec: valid type, string title and xKey, boolean stacked and a
\* non-empty yKeys whose entries all have a string key
WellFormedChartSpec(v) ==
  /\ v.k = "object"
  /\ DOMAIN v.f = {"type", "title", "xKey", "yKeys", "stacked"}
  /\ v.f.type.k = "string" /\ v.f.type.s \in ChartTypes
  /\ v.f.title.k = "string"
  /\ v.f.xKey.k = "string"
  /\ v.f.stacked.k = "boolean"
  /\ v.f.yKeys.k = "array"
  /\ Len(v.f.yKeys.a) >= 1
  /\ \A j \in DOMAIN v.f.yKeys.a :
       /\ v.f.yKeys.a[j].k = "object"
       /\ "key" \in DOMAIN v.f.yKeys.a[j].f
       /\ v.f.yKeys.a[j].f.key.k = "string"

\* C24: validateChartSpec returns, for every input and without throwing,
\* null or a ChartSpec; applied to a ChartSpec it returned, it returns an
\* equal ChartSpec.
C24_ChartSpecTotalIdempotent ==
  /\ vfn \in {"validateChartSpec", "validateChartSpec again"} =>
       /\ vout.st = "ok"
       /\ vout.value = Null \/ WellFormedChartSpec(vout.value)
  /\ vfn = "validateChartSpec again" => vout.value = vin

C24_Witness ==
  /\ vfn = "validateChartSpec again"
  /\ vout.st = "ok"
  /\ WellFormedChartSpec(vout.value)
  /\ Len(vout.value.f.yKeys.a) = 2
  /\ "label" \in DOMAIN vout.value.f.yKeys.a[2].f
  /\ vout.value.f.stacked = Bool(TRUE)

\* a chart of the legacy shape: valid type, string xKey, title and yKey,
\* `yKeys` absent or empty, no `stacked`
LegacyChart ==
  /\ RawChartString("type") /\ vin.f.type.s \in ChartTypes
  /\ RawChartString("xKey")
  /\ RawChartString("title")
  /\ RawChartString("yKey")
  /\ ~RawChartHas("yKeys") \/ vin.f.yKeys = Arr(<<>>)
  /\ ~RawChartHas("stacked")

LegacyAcceptedInInsight ==
  (LegacyChart /\ InsightChartValidated) =>
    /\ "chart" \in DOMAIN vout.value.insights[1]
    /\ vout.value.insights[1].chart =
         [type |-> vin.f.type.s, title |-> vin.f.title.s,
          xKey |-> vin.f.xKey.s, yKeys |-> <<[key |-> vin.f.yKey.s]>>,
          stacked |-> FALSE]

\* C25: chart validation accepts a chart of the legacy shape and normalizes
\* it to yKeys = [{key: yKey}] with stacked = false.  Refuted for
\* validateChartSpec: it returns null when `yKeys` is absent or empty.
C25_LegacyChartNormalized ==
  /\ LegacyAcceptedInInsight
  /\ (LegacyChart /\ vfn = "validateChartSpec") =>
       vout = Ok(Obj([type |-> vin.f.type, title |-> vin.f.title,
                      xKey |-> vin.f.xKey,
                      yKeys |-> Arr(<<Obj([key |-> vin.f.yKey])>>),
                      stacked |-> Bool(FALSE)]))

\* the numerals of the status codes
StatusText(st) ==
  CASE st = 200 -> "200" [] st = 201 -> "201" [] st = 400 -> "400"
    [] st = 404 -> "404" [] st = 429 -> "429" [] st = 500 -> "500"
    [] st = 502 -> "502" [] st = 503 -> "503"

FailureResponse == vin.net = "response" /\ ~vin.ok

\* the failure body is an object carrying a message in `error`
CarriesError ==
  /\ vin.body.json
  /\ vin.body.value.k = "object"
  /\ "error" \in DOMAIN vin.body.value.f
  /\ vin.body.value.f.error.k = "string"
  /\ vin.body.value.f.error.s # ""

\* the failure body is an object without `error`, or cannot be decoded
NoErrorField ==
  \/ ~vin.body.json
  \/ vin.body.value.k = "object" /\ "error" \notin DOMAIN vin.body.value.f

\* the server's message is used whenever the failure body carries one
ServerMessageUsed ==
  (FailureResponse /\ CarriesError /\ vfn # "none") =>
    vout = Err(vin.body.value.f.error.s)

\* C26: on a non-success status requestAnalysisPlan fails with the server's
\* `error` message when the failure body carries one, and with
\* "Plan request failed (<status>)" when it has no `error` field or cannot be
\* decoded; synthesizeInsights likewise with "Synthesize request failed
\* (<status>)".  Refuted: a body that cannot be decoded gives "Request
\* failed".
C26_FailureMessagePolicy ==
  /\ ServerMessageUsed
  /\ (FailureResponse /\ NoErrorField /\ vfn = "requestAnalysisPlan") =>
       vout = Err("Plan request failed (" \o StatusText(vin.status) \o ")")
  /\ (FailureResponse /\ NoErrorField /\ vfn = "synthesizeInsights") =>
       vout = Err("Synthesize request failed (" \o StatusText(vin.status)
                    \o ")")

\* C27: a call of a response validator leaves its argument as it was,
\* whether it returns or throws.  Refuted: validateLLMResponse writes
\* sql = "" into an argument whose sql is missing or null.
C27_ValidatorsLeaveInput ==
  [][(/\ vfn = "none"
      /\ vfn' \in {"validatePlanResponse", "validateInsightsResponse",
                   "validateLLMResponse"}) => vin' = vin]_vars

\* the string m contains the string p
Contains(m, p) ==
  \E k \in 1..(Len(m) - Len(p) + 1) : SubSeq(m, k, k + Len(p) - 1) = p

\* C28: validateLLMResponse throws an error containing "missing or invalid
\* 'sql'" for every object without `sql` whose explanation is a string.
\* Refuted: it takes the missing sql to be "" and returns.
C28_MissingSqlThrows ==
  [][(/\ vfn = "none"
      /\ vfn' = "validateLLMResponse"
      /\ vin.k = "object"
      /\ "sql" \notin DOMAIN vin.f
      /\ "explanation" \in DOMAIN vin.f
      /\ vin.f.explanation.k = "string") =>
       /\ vout'.st = "err"
       /\ Contains(vout'.message, "missing or invalid 'sql'")]_vars

\* C29: validateLLMResponse checks an optional chart: with string sql and
\* explanation and a well-formed chart it returns a value equal to the
\* input, chart included, and for a chart of unknown type it throws an
\* error containing "chart config is malformed".  Refuted: the chart is
\* neither checked nor returned.
C29_ChartChecked ==
  (/\ vfn = "validateLLMResponse"
   /\ vin.k = "object"
   /\ "sql" \in DOMAIN vin.f /\ vin.f.sql.k = "string"
   /\ "explanation" \in DOMAIN vin.f /\ vin.f.explanation.k = "string"
   /\ "chart" \in DOMAIN vin.f /\ vin.f.chart.k = "object") =>
    IF vin.f.chart.f.type.s \in ChartTypes
    THEN vout = Ok(vin)
    ELSE /\ vout.st = "err"
         /\ Contains(vout.message, "chart config is malformed")

ChatSent == vfn = "sendChatMessage"

\* the body of the chat response is an object carrying a message in `error`
ChatCarriesError ==
  /\ vin.res.body.json
  /\ vin.res.body.value.k = "object"
  /\ "error" \in DOMAIN vin.res.body.value.f
  /\ vin.res.body.value.f.error.k = "string"
  /\ vin.res.body.value.f.error.s # ""

\* C30: sendChatMessage issues exactly one POST whose body is {schema,
\* messages}; on a non-ok response it rejects, with the server's `error`
\* message when the body carries one, and on an ok response it returns only
\* a body that has passed validateLLMResponse: an object with string sql
\* (or none) and string explanation, returned as {sql, explanation}.
C30_OnePostValidatedResult ==
  ChatSent =>
    /\ Len(vout.requests) = 1
    /\ vout.requests[1].url = "/api/chat"
    /\ vout.requests[1].method = "POST"
    /\ vout.requests[1].body = [schema |-> vin.schema, messages |-> vin.messages]
    /\ (vin.res.net = "response" /\ ~vin.res.ok) =>
         /\ vout.st = "err"
         /\ ChatCarriesError => vout.message = vin.res.body.value.f.error.s
    /\ vout.st = "ok" =>
         /\ vin.res.net = "response" /\ vin.res.ok /\ vin.res.body.json
         /\ vin.res.body.value.k = "object"
         /\ DOMAIN vout.value.f = {"sql", "explanation"}
         /\ vout.value.f.sql.k = "string"
         /\ vout.value.f.explanation.k = "string"
         /\ vout.value.f.explanation = vin.res.body.value.f.explanation

C30_Witness ==
  /\ ChatSent
  /\ Len(vin.messages) = 2
  /\ vin.res.net = "response" /\ ~vin.res.ok
  /\ vin.res.status = 500
  /\ vout.st = "err"
  /\ vout.message = "Server error"
  /\ Len(vout.requests) = 1

\* C38: while item i of the plan is being executed the run's phase is
\* `executing`, totalQueries is the length of the plan and currentQueryTitle
\* is the title of item i; no planning, synthesizing or done snapshot has a
\* currentQueryTitle.
C38_CurrentQueryTitle ==
  /\ Len(runs) = 1 => progress = Shown(runs[1])
  /\ \A r \in DOMAIN runs :
       LET run == runs[r] IN
       /\ run.pc = "awaitQuery" =>
            /\ Shown(run).phase = "executing"
            /\ Shown(run).totalQueries = Len(QueriesOf(run))
            /\ Has(Shown(run), "currentQueryTitle")
            /\ Shown(run).currentQueryTitle = QueriesOf(run)[run.i + 1].title
       /\ \A j \in DOMAIN run.snapshots :
            run.snapshots[j].phase \in {"planning", "synthesizing", "done"} =>
              ~Has(run.snapshots[j], "currentQueryTitle")
  /\ progress.phase \in {"planning", "synthesizing", "done"} =>
       ~Has(progress, "currentQueryTitle")

C38_Witness ==
  \E r \in DOMAIN runs :
    LET run == runs[r] IN
    /\ run.pc = "awaitQuery"
    /\ Len(QueriesOf(run)) = 2
    /\ run.i = 1
    /\ QueriesOf(run)[1].title = "Count rows"
    /\ progress.currentQueryTitle = "Top rows"

\* the calls of the handlers that have not yet reached their end
InFlight == {k \in DOMAIN ops : ops[k].pc # "done"}

\* the message with the given id
MessageOf(msgs, id) == msgs[CHOOSE j \in DOMAIN msgs : msgs[j].id = id]

\* C31: at most one call of handleSend or handleGetInsights is in flight;
\* while one is, isLoading is true and no step appends a message, issues
\* the first request of another call or starts a run.
C31_OneOperationInFlight ==
  [][/\ Cardinality(InFlight) <= 1
     /\ Cardinality({k \in DOMAIN ops' : ops'[k].pc # "done"}) <= 1
     /\ InFlight # {} =>
          /\ isLoading
          /\ Len(messages') = Len(messages)
          /\ Len(ops') = Len(ops)
          /\ \A r \in DOMAIN runs' :
               runs'[r] = NewRun =>
                 (r \in DOMAIN runs /\ runs[r] = NewRun)]_vars

C31_Witness ==
  /\ Len(ops) = 1
  /\ InFlight = {1}
  /\ ignored
  /\ Len(messages) = 2
  /\ isLoading

\* C32 (as claimed): a tick of the poll while the run is in `executing` or
\* `synthesizing` leaves that phase and its totalQueries and completedQueries
\* on the assistant message of the run.
C32_PollShowsCurrentProgress ==
  [][(UpdateProgress /\ progress.phase \in {"executing", "synthesizing"}) =>
       \A k \in DOMAIN ops :
         (ops[k].kind = "insights" /\ ops[k].progressInterval) =>
           LET shown == MessageOf(messages', ops[k].id).insightsProgress IN
           /\ shown.phase = progress.phase
           /\ shown.totalQueries = progress.totalQueries
           /\ shown.completedQueries = progress.completedQueries]_vars

\* C33: every call of handleSend and handleGetInsights reaches its end;
\* when it has, its assistant message has loading = false and its interval
\* is cleared, and isLoading is false whenever no call is in flight.
C33_OperationsEnd ==
  /\ []<>(InFlight = {})
  /\ [](\A k \in DOMAIN ops :
          ops[k].pc = "done" =>
            /\ ~MessageOf(messages, ops[k].id).loading
            /\ ops[k].kind = "insights" => ~ops[k].progressInterval)
  /\ [](InFlight = {} => ~isLoading)

C33_Witness ==
  /\ Len(ops) = 2
  /\ InFlight = {}
  /\ ops[1].kind = "insights"
  /\ Len(runs) = 1
  /\ runs[1].pc = "rejected"
  /\ ops[2].kind = "send"
  /\ ops[2].results[1].st = "err"
  /\ ~isLoading
  /\ \A j \in DOMAIN messages :
       messages[j].role = "assistant" => ~messages[j].loading

\* the handleSend calls that have reached their end
SendsDone == {k \in DOMAIN ops : ops[k].kind = "send" /\ ops[k].pc = "done"}

QueryFailed(op) == Len(op.results) >= 2 /\ ~op.results[2].ok

VizFailed(op) ==
  /\ Len(op.results) = 3
  /\ (op.results[3].st = "err" \/ op.results[3].value = Null)

\* the message carries the explanation and the sql of the model's answer
Answered(m, op) ==
  /\ m.content = Get(op.results[1].value, "explanation").s
  /\ m.sql = Get(op.results[1].value, "sql").s
  /\ ~m.loading

\* C34: in handleSend a failing query still gives a message with
\* explanation, sql and error and without queryResult; no query is executed
\* for an empty sql; requestVisualization is called only after a query that
\* returned at least one row; a failing visualization leaves the message
\* complete but without a chart.
C34_SendOutcomes ==
  \A k \in SendsDone :
    LET op == ops[k]
        m == MessageOf(messages, op.id) IN
    /\ QueryFailed(op) =>
         /\ Answered(m, op)
         /\ m.error \in {Str("syntax error"), Str("SQL execution failed")}
         /\ m.queryResult = Undefined
         /\ Len(op.calls) = 2
    /\ (op.results[1].st = "ok"
        /\ Get(op.results[1].value, "sql") = Str("")) => Len(op.calls) = 1
    /\ Len(op.calls) = 3 =>
         /\ op.calls[3].url = "/api/visualize"
         /\ op.results[2].ok
         /\ op.results[2].numRows >= 1
    /\ VizFailed(op) =>
         /\ Answered(m, op)
         /\ m.chart = Undefined
         /\ m.queryResult = QueryResultOf(op.results[2])
         /\ m.error = Undefined

C34_Witness ==
  /\ Len(ops) = 2
  /\ SendsDone = {1, 2}
  /\ QueryFailed(ops[1])
  /\ MessageOf(messages, ops[1].id).error = Str("syntax error")
  /\ VizFailed(ops[2])
  /\ ops[2].results[3].st = "err"

\* the moves of Home's state named by the claim
AllowedMoves ==
  {<<"upload", "loading">>, <<"loading", "ready">>, <<"loading", "error">>,
   <<"ready", "upload">>, <<"error", "upload">>}

\* a call of handleReset reaches its end in this step
ResetEnded ==
  \E k \in DOMAIN resets' :
    /\ resets'[k].pc = "done"
    /\ k \in DOMAIN resets => resets[k].pc # "done"

\* C35 (as claimed): Home's state changes only along upload -> loading ->
\* ready, upload -> loading -> error and ready/error -> upload; state =
\* ready implies a non-null schema; when a reset ends, schema is null and
\* fileName and error are empty.
C35_HomeStateMachine ==
  [][/\ home'.state # home.state =>
          <<home.state, home'.state>> \in AllowedMoves
     /\ home.state = "ready" => home.schema # Null
     /\ ResetEnded => /\ home'.schema = Null
                      /\ home'.fileName = ""
                      /\ home'.error = ""]_vars

\* C36 (as claimed): whenever initDB has resolved conn was non-null, and no
\* loadCSV or executeQuery after it failed with "DuckDB not initialized".
C36_ResolvedInitHasConnection ==
  /\ \A k \in DOMAIN selects :
       "initDB" \in DOMAIN selects[k] => selects[k].initDB.conn # Null
  /\ home.error # NotInitialized.message

\* C37 (as claimed): when close() has settled, resolved or rejected, conn
\* and db are both null.
C37_CloseLeavesNothing ==
  [][ResetEnded => (conn' = Null /\ db' = Null)]_vars

====
